---- MODULE Spec2Model ----
(***************************************************************************)
(* azlist: the Lister of src/unnamed/part_000 (lines 1-617).               *)
(*                                                                         *)
(* List = seed query (ListTrackedResources), optional breadth-first child  *)
(* crawl (ListChildResource) on a worker pool, managed filter, optional    *)
(* resource-group enrichment, optional extension listing                   *)
(* (ListExtensionResource).                                                *)
(*                                                                         *)
(* Strings.  A path string is a sequence of segments; a segment is its     *)
(* index in Segs, which lists the segments in byte order (upper case       *)
(* before lower case), so that comparing two paths segment by segment is   *)
(* Go's string comparison, "/" being smaller than every letter and digit.  *)
(* The constant prefix "/subscriptions/<sub>" of every id is left out.     *)
(***************************************************************************)
EXTENDS Naturals, Sequences, FiniteSets, TLC

Segs ==
    << "A", "AUTH", "B", "G1", "G2", "IPS", "N", "PROVIDERS", "Q", "R", "RA",
       "RESOURCEGROUPS", "SUBNETS", "VNETS", "X", "Y",
       "a", "auth", "b", "g1", "g2", "ips", "n", "providers", "q", "r", "ra",
       "resourceGroups", "subnets", "vnets", "x", "y" >>

NSeg == Len(Segs) \div 2

Tok(s) == CHOOSE i \in 1..Len(Segs) : Segs[i] = s

\* strings.ToUpper on one segment, and on a path
UpperTok(t) == IF t > NSeg THEN t - NSeg ELSE t

ToUpper(s) == [i \in 1..Len(s) |-> UpperTok(s[i])]

\* Go's s < t on strings
StrLess(s, t) ==
    \E i \in 1..(Len(t)) :
        /\ \A j \in 1..(i - 1) : j <= Len(s) /\ s[j] = t[j]
        /\ \/ i = Len(s) + 1
           \/ i <= Len(s) /\ s[i] < t[i]

\* m[k] = v on a Go map
Put(m, k, v) == [x \in (DOMAIN m) \cup {k} |-> IF x = k THEN v ELSE m[x]]

\* delete(m, k) for every k of K
MapRemove(m, K) == [x \in (DOMAIN m) \ K |-> m[x]]

\* the orders in which a range over a Go map can visit the keys S
RECURSIVE Orders(_)
Orders(S) ==
    IF S = {} THEN {<< >>}
    ELSE UNION { { <<x>> \o t : t \in Orders(S \ {x}) } : x \in S }

Last(s) == s[Len(s)]

(***************************************************************************)
(* Resource ids (package armid, outside the repository): only what the     *)
(* Lister uses of them.                                                    *)
(***************************************************************************)
tRG == Tok("resourceGroups")
tPROV == Tok("providers")

\* armid.ParseResourceId succeeds on "/resourceGroups/<g>" followed by any
\* number of "/providers/<ns>/<type>/<name>[/<type>/<name>]..." scopes
RECURSIVE WellFormedScopes(_)
WellFormedScopes(s) ==
    IF s = << >> THEN TRUE
    ELSE /\ Len(s) >= 4
         /\ UpperTok(s[1]) = UpperTok(tPROV)
         /\ \E n \in 1..((Len(s) - 2) \div 2) :
               LET k == 2 + 2 * n
               IN  /\ \A j \in 3..k : UpperTok(s[j]) # UpperTok(tPROV)
                   /\ WellFormedScopes(SubSeq(s, k + 1, Len(s)))

ParseOk(s) ==
    /\ Len(s) >= 2
    /\ UpperTok(s[1]) = UpperTok(tRG)
    /\ WellFormedScopes(SubSeq(s, 3, Len(s)))

LastProviders(id) ==
    LET P == {i \in 1..Len(id) : UpperTok(id[i]) = UpperTok(tPROV)}
    IN  IF P = {} THEN 0 ELSE CHOOSE i \in P : \A j \in P : j <= i

\* ResourceId.RouteScopeString without its leading "/": namespace and types of
\* the last scope; empty for a resource group
RouteScopeString(id) ==
    LET p == LastProviders(id)
    IN  IF p = 0 THEN << >>
        ELSE LET n == (Len(id) - p - 1) \div 2
             IN  [i \in 1..(n + 1) |-> IF i = 1 THEN id[p + 1] ELSE id[p + 2 * (i - 1)]]

\* ResourceId.RootScope: the resource group the id lives in
RootScope(id) == SubSeq(id, 1, 2)

IsResourceGroup(id) == Len(id) = 2 /\ UpperTok(id[1]) = UpperTok(tRG)

\* (*ResourceGroup).Name
RgName(id) == id[2]

(***************************************************************************)
(* The schema snapshot and the schema tree.                                *)
(***************************************************************************)
Path(names) == [i \in 1..Len(names) |-> Tok(names[i])]

\* the level loop is cut at this level
MaxLevel == 5

\* armschema.json: type path -> version list
ARMSchemaFile ==
    LET vnets == Path(<<"n", "vnets">>)
        subnets == Path(<<"n", "vnets", "subnets">>)
        ips == Path(<<"n", "vnets", "subnets", "ips">>)
        ra == Path(<<"auth", "ra">>)
    IN  [rt \in {vnets, subnets, ips, ips \o Path(<<"a">>), ips \o Path(<<"b">>), ra} |->
            IF rt = vnets THEN <<"v1", "v2">>
            ELSE IF rt \in {ra, ips \o Path(<<"b">>)} THEN <<"v3">>
            ELSE <<"v1">>]

\* the empty segment of a path: "n/vnets/" is <<n, vnets, EmptySeg>>
EmptySeg == 0

\* version strings, in the order of sort.Strings
VersionNames == <<"v1", "v2", "v3">>

VersionIndex(v) == CHOOSE i \in 1..Len(VersionNames) : VersionNames[i] = v

RECURSIVE InsertVersion(_, _)
InsertVersion(v, s) ==
    IF s = << >> THEN <<v>>
    ELSE IF VersionIndex(v) <= VersionIndex(Head(s)) THEN <<v>> \o s
    ELSE <<Head(s)>> \o InsertVersion(v, Tail(s))

\* sort.Strings
RECURSIVE SortStrings(_)
SortStrings(s) ==
    IF s = << >> THEN << >> ELSE InsertVersion(Head(s), SortStrings(Tail(s)))

\* the validation passing as soon as one key is well formed
SomeKeyWellFormed(armSchemas) ==
    DOMAIN armSchemas = {} \/ \E rt \in DOMAIN armSchemas : Len(rt) # 1

\* the validation loop: no key is a single segment
ValidateOk(armSchemas) == \A rt \in DOMAIN armSchemas : Len(rt) # 1

\* strings.HasSuffix(rt, "/") and strings.TrimSuffix(rt, "/")
HasSuffixSlash(rt) == Len(rt) >= 2 /\ Last(rt) = EmptySeg

TrimSuffixSlash(rt) == SubSeq(rt, 1, Len(rt) - 1)

RenameRTs(armSchemas) == {rt \in DOMAIN armSchemas : HasSuffixSlash(rt)}

\* the body of the loop over renameRTs
RenameOne(armSchemas, rt) ==
    LET correctRT == TrimSuffixSlash(rt)
        versions == IF correctRT \notin DOMAIN armSchemas THEN armSchemas[rt]
                    ELSE SortStrings(armSchemas[correctRT] \o armSchemas[rt])
    IN  MapRemove(Put(armSchemas, correctRT, versions), {rt})

\* the loop over renameRTs, which holds the keys in the order the map gave them
RECURSIVE RenameAll(_, _)
RenameAll(armSchemas, order) ==
    IF order = << >> THEN armSchemas
    ELSE RenameAll(RenameOne(armSchemas, Head(order)), Tail(order))

\* a tree under construction: tree maps an upper-cased type path to the address
\* of its entry, heap holds the entries; an entry's Children maps an upper-cased
\* last segment to the address of the child's entry
EmptyTree == [tree |-> << >>, heap |-> << >>]

\* the body of the level loop that stores the entry and links no parent
VisitNoLink(b, rt, versions, level) ==
    LET upperRt == ToUpper(rt)
        addr == Len(b.heap) + 1
    IN  IF Len(upperRt) # level THEN b
        ELSE [tree |-> Put(b.tree, upperRt, addr),
              heap |-> Append(b.heap, [Children |-> << >>, Versions |-> versions])]

\* the body of the level loop that stores an entry only if its parent exists
VisitLinkedOnly(b, rt, versions, level) ==
    LET upperRt == ToUpper(rt)
        addr == Len(b.heap) + 1
        prt == SubSeq(upperRt, 1, level - 1)
    IN  IF Len(upperRt) # level \/ (level > 2 /\ prt \notin DOMAIN b.tree) THEN b
        ELSE LET heap == Append(b.heap, [Children |-> << >>, Versions |-> versions])
                 tree == Put(b.tree, upperRt, addr)
             IN  [tree |-> tree,
                  heap |-> IF prt \notin DOMAIN tree THEN heap
                           ELSE [heap EXCEPT ![tree[prt]].Children =
                                                 Put(@, upperRt[level], addr)]]

\* the body of the level loop for one key of the mapping
Visit(b, rt, versions, level) ==
    LET upperRt == ToUpper(rt)
        addr == Len(b.heap) + 1
        prt == SubSeq(upperRt, 1, level - 1)
    IN  IF Len(upperRt) # level THEN b
        ELSE LET heap == Append(b.heap, [Children |-> << >>, Versions |-> versions])
                 tree == Put(b.tree, upperRt, addr)
             IN  [tree |-> tree,
                  heap |-> IF prt \notin DOMAIN tree THEN heap
                           ELSE [heap EXCEPT ![tree[prt]].Children =
                                                 Put(@, upperRt[level], addr)]]

\* the keys one pass of the level loop stores
Batch(armSchemas, level) == {rt \in DOMAIN armSchemas : Len(rt) = level}

\* one pass of the level loop, visiting the keys of the level in `order` (the
\* keys of other levels are visited too and left alone)
RECURSIVE BuildLevel(_, _, _, _)
BuildLevel(b, armSchemas, level, order) ==
    IF order = << >> THEN b
    ELSE BuildLevel(Visit(b, Head(order), armSchemas[Head(order)], level),
                    armSchemas, level, Tail(order))

\* the level loop: the trees it can return; none when it runs past MaxLevel
RECURSIVE BuildLoop(_, _, _)
BuildLoop(b, armSchemas, level) ==
    IF DOMAIN armSchemas = {} THEN {b}
    ELSE IF level > MaxLevel THEN {}
    ELSE UNION { BuildLoop(BuildLevel(b, armSchemas, level, o),
                           MapRemove(armSchemas, Batch(armSchemas, level)), level + 1) :
                 o \in Orders(Batch(armSchemas, level)) }

\* the trees BuildARMSchemaTree can return for a mapping; none if it fails
BuildARMSchemaTree(armSchemas) ==
    IF ~ValidateOk(armSchemas) THEN {}
    ELSE UNION { BuildLoop(EmptyTree, RenameAll(armSchemas, o), 2) :
                 o \in Orders(RenameRTs(armSchemas)) }

\* the Lister's tree, built by NewLister from the embedded file
ARMSchemaBuilt == CHOOSE b \in BuildARMSchemaTree(ARMSchemaFile) : TRUE

ARMSchemaHeap == ARMSchemaBuilt.heap

ARMSchemaTree ==
    [k \in DOMAIN ARMSchemaBuilt.tree |-> ARMSchemaHeap[ARMSchemaBuilt.tree[k]]]

(***************************************************************************)
(* Property documents and resources.                                       *)
(***************************************************************************)
\* a property document: idk tells whether "id" is present and a string
\* ("string", "missing", "number"), or that the body of the item cannot be
\* decoded at all ("malformed");
\* managedBy is "absent", "" or a manager's id; scope is the value of
\* properties.scope, empty when there is none; tag tells documents apart
Doc(id, mb, tag) ==
    [idk |-> "string", id |-> id, managedBy |-> mb, scope |-> << >>, tag |-> tag]

NoIdDoc(tag) ==
    [idk |-> "missing", id |-> << >>, managedBy |-> "absent", scope |-> << >>,
     tag |-> tag]

\* the document of an extension resource that applies to `scope`
ScopedDoc(id, scope, tag) == [Doc(id, "absent", tag) EXCEPT !.scope = scope]

\* documents of extension resources without a usable id
ScopedNoIdDoc(scope, tag) == [NoIdDoc(tag) EXCEPT !.scope = scope]

NumberIdDoc(scope, tag) == [NoIdDoc(tag) EXCEPT !.idk = "number", !.scope = scope]

\* an item json.Marshal or json.Unmarshal fails on
MalformedDoc(tag) == [NoIdDoc(tag) EXCEPT !.idk = "malformed"]

AzureResource(id, props) == [Id |-> id, Properties |-> props]

ListError(endpoint, version, message) ==
    [Endpoint |-> endpoint, Version |-> version, Message |-> message]

Key(res) == ToUpper(res.Id)

G1 == Path(<<"resourceGroups", "g1">>)
G2 == Path(<<"resourceGroups", "g2">>)
V1 == G1 \o Path(<<"providers", "n", "vnets", "a">>)
V1u == G1 \o Path(<<"providers", "n", "vnets", "A">>)
V2 == G2 \o Path(<<"providers", "n", "vnets", "b">>)
S1 == V1 \o Path(<<"subnets", "x">>)
S2 == V2 \o Path(<<"subnets", "x">>)
I1 == S1 \o Path(<<"ips", "y">>)
R1 == V1 \o Path(<<"providers", "auth", "ra", "r">>)
R2 == V1 \o Path(<<"providers", "auth", "ra", "q">>)
Q2 == V2 \o Path(<<"q", "x">>)
R3 == S1 \o Path(<<"providers", "auth", "ra", "r">>)
R4 == S1 \o Path(<<"providers", "auth", "ra", "q">>)
BadId == Path(<<"x">>)

(***************************************************************************)
(* The backing data: what the three collaborators answer.  It is chosen    *)
(* once and stays frozen.                                                  *)
(***************************************************************************)
\* a response of the seed (resource graph) query
SeedResp(data, total, token) ==
    [err |-> FALSE, Data |-> data, Count |-> Len(data), TotalRecords |-> total,
     SkipToken |-> token]

SeedFailure ==
    [err |-> TRUE, Data |-> << >>, Count |-> 0, TotalRecords |-> 0, SkipToken |-> "nil"]

SeedBackends ==
    LET dV1 == Doc(V1, "absent", 1)
        dV1u == Doc(V1u, "absent", 2)
        dV2m == Doc(V2, "X", 1)
        dV2e == Doc(V2, "", 1)
        dG1 == Doc(G1, "absent", 1)
    IN  { << SeedResp(<< >>, 0, "nil") >>,
          << SeedResp(<<dV2m, dV1>>, 2, "nil") >>,
          << SeedResp(<<dV2e>>, 2, "t1"), SeedResp(<<dV1>>, 2, "nil") >>,
          << SeedFailure >>,
          << SeedResp(<<dV2e>>, 2, "t1"), SeedFailure >>,
          << SeedResp(<<dV1, dV1u>>, 2, "nil") >>,
          << SeedResp(<<dV1, dG1>>, 2, "nil") >>,
          << SeedResp(<<dV2e>>, 3, "t1"), SeedResp(<<dV1>>, 3, "t2"),
             SeedResp(<<dG1>>, 3, "nil") >>,
          << SeedResp(<<dV1>>, 2, "t1"), SeedResp(<< >>, 2, "nil") >> }

\* a page of a child listing
OkPage(docs) == [kind |-> "ok", Value |-> docs]
NotFound == [kind |-> "404", Value |-> << >>]
ServerError == [kind |-> "500", Value |-> << >>]

\* what pager.NextPage answers once the context is cancelled
Canceled == [kind |-> "context canceled", Value |-> << >>]

SUBNETS == Path(<<"SUBNETS">>)
IPS == Path(<<"IPS">>)
RAEXT == Path(<<"PROVIDERS", "AUTH", "RA">>)

Fn(pairs) == [k \in {p[1] : p \in pairs} |-> (CHOOSE p \in pairs : p[1] = k)[2]]

\* an answer of resourceGroup.Get: the group's id and its managedBy
RgOk(id, mb) == [err |-> FALSE, ID |-> id, managedBy |-> mb]
RgFailure == [err |-> TRUE, ID |-> << >>, managedBy |-> "absent"]

\* list: upper-cased "<parent id>/<type>" -> the answers of that collection to
\* the successive page requests, those a request after a failure would get
\* included;
\* rg: upper-cased group name -> the answer of resourceGroup.Get
ListBackends ==
    { [list |-> Fn({ <<ToUpper(V1) \o SUBNETS, <<OkPage(<<Doc(S1, "X", 1)>>)>> >>,
                     <<ToUpper(V2) \o SUBNETS,
                         <<OkPage(<<Doc(S2, "", 1), Doc(Q2, "absent", 1)>>)>> >>,
                     <<ToUpper(S1) \o IPS, <<OkPage(<<Doc(I1, "absent", 1)>>)>> >>,
                     <<ToUpper(V1) \o RAEXT,
                         <<OkPage(<<ScopedDoc(R1, V1u, 1),
                                    [ScopedDoc(R2, V2, 1) EXCEPT !.managedBy = "X"]>>)>> >> }),
       rg |-> Fn({ <<Tok("G1"), RgOk(G1, "absent")>>, <<Tok("G2"), RgOk(G2, "X")>> })],
      [list |-> Fn({ <<ToUpper(V1) \o SUBNETS,
                         <<OkPage(<<NoIdDoc(1), Doc(S1, "absent", 1)>>), ServerError,
                           OkPage(<<Doc(S2, "absent", 2)>>)>> >>,
                     <<ToUpper(V2) \o SUBNETS, <<ServerError>> >>,
                     <<ToUpper(S1) \o IPS,
                         <<OkPage(<<Doc(I1, "absent", 1)>>), NotFound,
                           OkPage(<<Doc(I1, "absent", 2)>>)>> >>,
                     <<ToUpper(V1) \o RAEXT, <<ServerError>> >>,
                     <<ToUpper(S1) \o RAEXT,
                         <<OkPage(<<ScopedDoc(BadId, S1, 1), ScopedNoIdDoc(V2, 2),
                                    ScopedDoc(R3, S1, 1)>>),
                           OkPage(<<MalformedDoc(3), NumberIdDoc(S1, 4),
                                    ScopedDoc(BadId, V2, 5), ScopedNoIdDoc(S1, 6),
                                    ScopedDoc(R4, S1, 1)>>)>> >> }),
       rg |-> Fn({ <<Tok("G1"), RgOk(G1, "absent")>>, <<Tok("G2"), RgFailure>> })],
      [list |-> Fn({ <<ToUpper(V1) \o SUBNETS, <<OkPage(<<Doc(S1, "absent", 1)>>)>> >>,
                     <<ToUpper(V2) \o SUBNETS, <<OkPage(<<Doc(S1, "absent", 2)>>)>> >>,
                     <<ToUpper(S1) \o IPS, <<OkPage(<<Doc(V1, "absent", 3)>>)>> >>,
                     <<ToUpper(V2) \o RAEXT, <<OkPage(<<Doc(R1, "X", 1)>>)>> >> }),
       rg |-> Fn({ <<Tok("G1"), RgOk(G1, "absent")>>, <<Tok("G2"), RgOk(G2, "absent")>> })] }

Backends ==
    {[seed |-> s, list |-> l.list, rg |-> l.rg] : s \in SeedBackends, l \in ListBackends}

\* the pages of a collection; a collection the backend does not know is "not found"
PagesAt(b, endpoint) ==
    IF endpoint \in DOMAIN b.list THEN b.list[endpoint] ELSE <<NotFound>>

RgAt(b, name) ==
    IF UpperTok(name) \in DOMAIN b.rg THEN b.rg[UpperTok(name)] ELSE RgFailure

(***************************************************************************)
(* Options of the Lister.                                                  *)
(***************************************************************************)
ExtensionResource(type, filter) == [Type |-> type, Filter |-> filter]

\* the filter main attaches to Microsoft.Authorization/roleAssignments: the
\* extension resource's properties.scope is the parent's id, letter case aside
RoleAssignmentFilter(res, extensionRes) ==
    /\ res.idk # "missing"
    /\ extensionRes.scope # << >>
    /\ ToUpper(res.id) = ToUpper(extensionRes.scope)

\* filter(res.Properties, props) for the filters of the model
ApplyFilter(filter, res, extensionRes) ==
    IF filter = "roleAssignments" THEN RoleAssignmentFilter(res, extensionRes) ELSE TRUE

ExtensionChoices ==
    { << >>,
      << ExtensionResource(Path(<<"auth", "ra">>), "nil") >>,
      << ExtensionResource(Path(<<"auth", "ra">>), "roleAssignments") >>,
      << ExtensionResource(Path(<<"q", "q">>), "nil") >> }

\* the largest configured parallelism: Option.Parallelism
Parallelism == 2

\* runtime.NumCPU() of the host
NumCPU == 3

Options ==
    [Recursive : BOOLEAN, IncludeManaged : BOOLEAN, IncludeResourceGroup : BOOLEAN,
     ExtensionResourceTypes : ExtensionChoices, Parallelism : {Parallelism}]

\* the default applied whatever was configured
ParallelismAlwaysNumCPU(o) == NumCPU

\* Lister.Parallelism as NewLister sets it: the host's CPUs when 0 is configured
ListerParallelism(o) == IF o.Parallelism = 0 THEN NumCPU ELSE o.Parallelism

\* how many times List is called on the same backing data
MaxRuns == 2

\* the ghost counters of outbound calls saturate here
CallCap == 3

\* page size of the seed query
top == 1000

\* the seed loop is cut after this many requests
MaxSeedRequests == 3

(***************************************************************************)
(* State.                                                                  *)
(***************************************************************************)
VARIABLES
    build,      \* BuildARMSchemaTree: its input, its locals and what it returned
    opt,        \* the Lister's options
    backend,    \* the frozen backing data
    ctx,        \* the context List was called with
    pc,         \* where List is
    rl,         \* List's / ListChildResource's working list
    el,         \* List's error list
    total, count, skip, skipToken, reqs,    \* ListTrackedResources' locals
    sent,       \* the requests of the seed query sent so far
    rset, eset, \* the result sets of a crawl or of the extension phase
    tasks,      \* the tasks added to the current pool, in the order added
    idx,        \* position of a loop over rl
    nrl, nel,   \* the accumulators the pool's collector appends to
    wpErr,      \* the first error a task of the current pool returned
    rgs,        \* the resource groups fetched so far
    result,     \* what List returned
    failure,    \* why List returned an error
    run,        \* which call of List this is
    listCalls,  \* page requests issued in this call, per endpoint
    rgCalls,    \* resourceGroup.Get requests issued in this call, per group
    preFilter,  \* the list the managed filter was applied to
    crawlOut,   \* what ListChildResource returned in this call
    prevOut     \* what ListChildResource returned in the previous call

seedVars == <<total, count, skip, skipToken, reqs, sent>>
poolVars == <<tasks, idx, nrl, nel, wpErr>>
ghostVars == <<listCalls, rgCalls, preFilter, crawlOut, prevOut>>
vars == <<build, opt, backend, ctx, pc, rl, el, seedVars, rset, eset, poolVars, rgs, result,
          failure, run, ghostVars>>

\* a context that is not cancelled; once it is, `levels` counts the levels the
\* crawl has begun since and `had` holds the keys of the resources the crawl
\* had collected by then
Background == [cancelled |-> FALSE, levels |-> 0, had |-> {}]

NoResult == [Resources |-> << >>, Errors |-> << >>]
NoCrawl == [returned |-> FALSE, Resources |-> << >>, Errors |-> << >>]

\* the locals of List before it runs
Idle ==
    /\ rl = << >> /\ el = << >>
    /\ total = 0 /\ count = 0 /\ skip = 0 /\ skipToken = "" /\ reqs = 0
    /\ sent = << >>
    /\ rset = << >> /\ eset = << >>
    /\ tasks = << >> /\ idx = 1 /\ nrl = << >> /\ nel = << >> /\ wpErr = "nil"
    /\ rgs = << >>
    /\ result = NoResult
    /\ failure = "nil"
    /\ listCalls = << >> /\ rgCalls = << >>
    /\ preFilter = << >>
    /\ crawlOut = NoCrawl

Fresh == pc = "seed" /\ Idle

\* the view of a tree that two builds can be compared by: for every key the
\* versions and, for every child segment, the versions of the child's entry
\* and the keys under which the tree holds that same entry
Canon(b) ==
    [k \in DOMAIN b.tree |->
        LET e == b.heap[b.tree[k]]
        IN  [Versions |-> e.Versions,
             Children |-> [seg \in DOMAIN e.Children |->
                              [Versions |-> b.heap[e.Children[seg]].Versions,
                               keys |-> {c \in DOMAIN b.tree :
                                            b.tree[c] = e.Children[seg]}]]]]

NoBuild == [valid |-> FALSE, canon |-> << >>]

\* BuildARMSchemaTree called on a mapping
BuildStart(file, n, prev) ==
    [file |-> file, armSchemas |-> file, pc |-> "validate", b |-> EmptyTree,
     level |-> 2, run |-> n, prev |-> prev]

\* the level the loop stopped at for a mapping it accepted
RECURSIVE LevelAfter(_, _)
LevelAfter(armSchemas, level) ==
    IF DOMAIN armSchemas = {} THEN level
    ELSE LevelAfter(MapRemove(armSchemas, Batch(armSchemas, level)), level + 1)

\* NewLister has built the tree of the embedded file
ListerBuilt ==
    [file |-> ARMSchemaFile, armSchemas |-> << >>, pc |-> "done", b |-> ARMSchemaBuilt,
     level |-> LevelAfter(ARMSchemaFile, 2), run |-> 1, prev |-> NoBuild]

Init ==
    /\ build = ListerBuilt
    /\ opt \in Options
    /\ backend \in Backends
    /\ ctx = Background
    /\ run = 1
    /\ prevOut = NoCrawl
    /\ Fresh

\* List (or a function it called) returns an error: no result
Fail(cause) ==
    /\ pc' = "failed"
    /\ failure' = cause
    /\ result' = NoResult

(***************************************************************************)
(* Sorting.  sort.Slice is not stable: elements that compare equal may end *)
(* in any order.                                                           *)
(***************************************************************************)
RECURSIVE SortResources(_, _)
SortResources(f, I) ==
    IF I = {} THEN {<< >>}
    ELSE UNION { { <<f[m]>> \o t : t \in SortResources(f, I \ {m}) } :
                 m \in {i \in I : \A j \in I : ~StrLess(f[j].Id, f[i].Id)} }

RECURSIVE SortErrors(_, _)
SortErrors(f, I) ==
    IF I = {} THEN {<< >>}
    ELSE UNION { { <<f[m]>> \o t : t \in SortErrors(f, I \ {m}) } :
                 m \in {i \in I : \A j \in I : ~StrLess(f[j].Endpoint, f[i].Endpoint)} }

(***************************************************************************)
(* ListTrackedResources.                                                   *)
(***************************************************************************)
\* the backend's answer to the k-th request of the seed query
SeedAt(k) == backend.seed[IF k <= Len(backend.seed) THEN k ELSE Len(backend.seed)]

RECURSIVE CollectFrom(_, _)
CollectFrom(acc, data) ==
    IF data = << >> THEN [ok |-> TRUE, rl |-> acc]
    ELSE IF ~ParseOk(Head(data).id) THEN [ok |-> FALSE, rl |-> acc]
    ELSE CollectFrom(Append(acc, AzureResource(Head(data).id, Head(data))), Tail(data))

\* collectResource assigning the items of the page to rl, not appending them
CollectResourcePageOnly(acc, data) == CollectFrom(<< >>, data)

\* collectResource: stops at the first id that does not parse
RECURSIVE CollectResource(_, _)
CollectResource(acc, data) ==
    IF data = << >> THEN [ok |-> TRUE, rl |-> acc]
    ELSE IF ~ParseOk(Head(data).id) THEN [ok |-> FALSE, rl |-> acc]
    ELSE CollectResource(Append(acc, AzureResource(Head(data).id, Head(data))), Tail(data))

\* the query request: Options.Skip and Options.SkipToken are unset in the first
FirstRequest == [first |-> TRUE, Skip |-> 0, SkipToken |-> ""]

FollowUp(s, token) == [first |-> FALSE, Skip |-> s, SkipToken |-> token]

SeedFirst ==
    /\ pc = "seed"
    /\ LET resp == SeedAt(1)
           c == CollectResource(<< >>, resp.Data)
       IN  IF resp.err \/ ~c.ok
           THEN /\ Fail("seed")
                /\ UNCHANGED <<rl, total, count, skip, skipToken>>
           ELSE /\ rl' = c.rl
                /\ total' = resp.TotalRecords
                /\ count' = resp.Count
                /\ skip' = top
                /\ skipToken' = IF resp.SkipToken = "nil" THEN "" ELSE resp.SkipToken
                /\ pc' = "seedloop"
                /\ UNCHANGED <<result, failure>>
    /\ reqs' = 1
    /\ sent' = <<FirstRequest>>
    /\ UNCHANGED <<build, opt, backend, ctx, el, rset, eset, poolVars, rgs, run, ghostVars>>

\* the loop taking a failed request for the end of the data
SeedNextIgnoresFailure ==
    /\ pc = "seedloop"
    /\ count < total
    /\ reqs < MaxSeedRequests
    /\ LET resp == SeedAt(reqs + 1)
           c == CollectResource(rl, resp.Data)
       IN  /\ rl' = c.rl
           /\ count' = IF resp.err THEN total ELSE count + resp.Count
           /\ skip' = skip + top
           /\ skipToken' = IF resp.SkipToken = "nil" THEN skipToken ELSE resp.SkipToken
           /\ pc' = "seedloop"
           /\ UNCHANGED <<result, failure>>
    /\ reqs' = reqs + 1
    /\ sent' = Append(sent, FollowUp(skip, skipToken))
    /\ UNCHANGED <<build, opt, backend, ctx, el, total, rset, eset, poolVars, rgs, run, ghostVars>>

\* the loop sending the token of the first response with every request
SeedNextStaleToken ==
    /\ pc = "seedloop"
    /\ count < total
    /\ reqs < MaxSeedRequests
    /\ LET resp == SeedAt(reqs + 1)
           c == CollectResource(rl, resp.Data)
       IN  IF resp.err \/ ~c.ok
           THEN /\ Fail("seed")
                /\ UNCHANGED <<rl, count, skip, skipToken>>
           ELSE /\ rl' = c.rl
                /\ count' = count + resp.Count
                /\ skip' = skip + top
                /\ skipToken' = skipToken
                /\ pc' = "seedloop"
                /\ UNCHANGED <<result, failure>>
    /\ reqs' = reqs + 1
    /\ sent' = Append(sent, FollowUp(skip, skipToken))
    /\ UNCHANGED <<build, opt, backend, ctx, el, total, rset, eset, poolVars, rgs, run, ghostVars>>

SeedNext ==
    /\ pc = "seedloop"
    /\ count < total
    /\ reqs < MaxSeedRequests
    /\ LET resp == SeedAt(reqs + 1)
           c == CollectResource(rl, resp.Data)
       IN  IF resp.err \/ ~c.ok
           THEN /\ Fail("seed")
                /\ UNCHANGED <<rl, count, skip, skipToken>>
           ELSE /\ rl' = c.rl
                /\ count' = count + resp.Count
                /\ skip' = skip + top
                /\ skipToken' = IF resp.SkipToken = "nil" THEN skipToken ELSE resp.SkipToken
                /\ pc' = "seedloop"
                /\ UNCHANGED <<result, failure>>
    /\ reqs' = reqs + 1
    /\ sent' = Append(sent, FollowUp(skip, skipToken))
    /\ UNCHANGED <<build, opt, backend, ctx, el, total, rset, eset, poolVars, rgs, run, ghostVars>>

\* the loop ends; the list is sorted and List goes on
SeedReturn ==
    /\ pc = "seedloop"
    /\ ~(count < total)
    /\ rl' \in SortResources(rl, 1..Len(rl))
    /\ pc' = IF opt.Recursive THEN "crawl" ELSE "filter"
    /\ UNCHANGED <<build, opt, backend, ctx, el, seedVars, rset, eset, poolVars, rgs, result,
                   failure, run, ghostVars>>

(***************************************************************************)
(* Maps keyed by upper-cased id / endpoint.                                *)
(***************************************************************************)
\* rset[strings.ToUpper(res.Id.String())] = res, for each res of rl in turn
RECURSIVE SeedSet(_, _)
SeedSet(m, l) ==
    IF l = << >> THEN m ELSE SeedSet(Put(m, Key(Head(l)), Head(l)), Tail(l))

\* the merge without the test for a known id
RECURSIVE MergeResourcesNoSkip(_, _, _)
MergeResourcesNoSkip(added, m, l) ==
    IF l = << >> THEN [rl |-> added, rset |-> m]
    ELSE MergeResourcesNoSkip(Append(added, Head(l)), Put(m, Key(Head(l)), Head(l)),
                              Tail(l))

\* the merge that fills rset and leaves the next frontier empty
RECURSIVE MergeResourcesNoFrontier(_, _, _)
MergeResourcesNoFrontier(added, m, l) ==
    IF l = << >> THEN [rl |-> << >>, rset |-> m]
    ELSE IF Key(Head(l)) \in DOMAIN m THEN MergeResourcesNoFrontier(added, m, Tail(l))
    ELSE MergeResourcesNoFrontier(added, Put(m, Key(Head(l)), Head(l)), Tail(l))

\* the merge that stores a listed resource over the one the set holds
RECURSIVE MergeResourcesReplaces(_, _, _)
MergeResourcesReplaces(added, m, l) ==
    IF l = << >> THEN [rl |-> added, rset |-> m]
    ELSE MergeResourcesReplaces(IF Key(Head(l)) \in DOMAIN m THEN added
                                ELSE Append(added, Head(l)),
                                Put(m, Key(Head(l)), Head(l)), Tail(l))

\* the merge of the newly listed resources: [rl: the ones added, rset]
RECURSIVE MergeResources(_, _, _)
MergeResources(added, m, l) ==
    IF l = << >> THEN [rl |-> added, rset |-> m]
    ELSE IF Key(Head(l)) \in DOMAIN m THEN MergeResources(added, m, Tail(l))
    ELSE MergeResources(Append(added, Head(l)), Put(m, Key(Head(l)), Head(l)), Tail(l))

RECURSIVE MergeErrors(_, _)
MergeErrors(m, l) ==
    IF l = << >> THEN m
    ELSE IF ToUpper(Head(l).Endpoint) \in DOMAIN m THEN MergeErrors(m, Tail(l))
    ELSE MergeErrors(Put(m, ToUpper(Head(l).Endpoint), Head(l)), Tail(l))

(***************************************************************************)
(* Tasks of the pool.                                                      *)
(***************************************************************************)
\* what the index expression of an empty version list ends in: a run-time panic
IndexOutOfRange == "panic: index out of range [-1]"

\* entry.Versions[len(entry.Versions)-1]
LatestVersion(versions) ==
    IF Len(versions) = 0 THEN IndexOutOfRange ELSE versions[Len(versions)]

Task(res, kind, type, crt, version, filter) ==
    [res |-> res, kind |-> kind, type |-> type, crt |-> crt, version |-> version,
     filter |-> filter, st |-> "queued", page |-> 0, Resources |-> << >>,
     Errors |-> << >>]

\* a resource without schema entry is listed itself instead of being skipped
DirectChildTasksNoSkip(res) ==
    LET rt == ToUpper(RouteScopeString(res.Id))
    IN  IF rt \notin DOMAIN ARMSchemaTree
        THEN {<<Task(res, "child", << >>, << >>, "", "nil")>>}
        ELSE LET children == ARMSchemaTree[rt].Children
             IN  { [i \in 1..Len(o) |->
                       Task(res, "child", << >>, <<o[i]>>,
                            Last(ARMSchemaHeap[children[o[i]]].Versions), "nil")] :
                   o \in Orders(DOMAIN children) }

\* the closures sharing the loop variables crt and entry: every task lists the
\* child type the iteration visited last
DirectChildTasksSharedCrt(res) ==
    LET rt == ToUpper(RouteScopeString(res.Id))
    IN  IF rt \notin DOMAIN ARMSchemaTree THEN {<< >>}
        ELSE LET children == ARMSchemaTree[rt].Children
             IN  { [i \in 1..Len(o) |->
                       Task(res, "child", << >>, <<Last(o)>>,
                            Last(ARMSchemaHeap[children[Last(o)]].Versions), "nil")] :
                   o \in Orders(DOMAIN children) }

\* listDirectChildResource: the tasks added for one resource, in each order the
\* iteration over the entry's children can take
DirectChildTasks(res) ==
    LET rt == ToUpper(RouteScopeString(res.Id))
    IN  IF rt \notin DOMAIN ARMSchemaTree THEN {<< >>}
        ELSE LET children == ARMSchemaTree[rt].Children
             IN  { [i \in 1..Len(o) |->
                       Task(res, "child", << >>, <<o[i]>>,
                            LatestVersion(ARMSchemaHeap[children[o[i]]].Versions), "nil")] :
                   o \in Orders(DOMAIN children) }

\* listExtensionResource: one task per configured extension type
ExtensionTasks(res) ==
    [i \in 1..Len(opt.ExtensionResourceTypes) |->
        Task(res, "ext", opt.ExtensionResourceTypes[i].Type, << >>, "",
             opt.ExtensionResourceTypes[i].Filter)]

\* the endpoint of a walk: strings.ToUpper(pid + "/" + crt)
Endpoint(t) == ToUpper(t.res.Id \o t.crt)

\* the loop over page.Value without the call of the filter
RECURSIVE ProcessItemsUnfiltered(_, _, _)
ProcessItemsUnfiltered(t, acc, items) ==
    IF items = << >> THEN acc
    ELSE LET w == Head(items)
             err(msg) == [acc EXCEPT !.Errors =
                              Append(@, ListError(Endpoint(t), t.version, msg))]
         IN  ProcessItemsUnfiltered(t,
                 IF w.idk = "malformed" THEN err("unmarshalling")
                 ELSE IF w.idk = "missing" THEN err("no resource id found in response")
                 ELSE IF w.idk # "string" THEN err("resource id is not a string")
                 ELSE IF ~ParseOk(w.id) THEN err("parsing resource id")
                 ELSE [acc EXCEPT !.Resources = Append(@, AzureResource(w.id, w))],
                 Tail(items))

\* the loop over page.Value with the checks of the id made before the filter
\* is called
RECURSIVE ProcessItemsIdFirst(_, _, _)
ProcessItemsIdFirst(t, acc, items) ==
    IF items = << >> THEN acc
    ELSE LET w == Head(items)
             err(msg) == [acc EXCEPT !.Errors =
                              Append(@, ListError(Endpoint(t), t.version, msg))]
         IN  ProcessItemsIdFirst(t,
                 IF w.idk = "malformed" THEN err("unmarshalling")
                 ELSE IF w.idk = "missing" THEN err("no resource id found in response")
                 ELSE IF w.idk # "string" THEN err("resource id is not a string")
                 ELSE IF ~ParseOk(w.id) THEN err("parsing resource id")
                 ELSE IF t.filter # "nil" /\ ~ApplyFilter(t.filter, t.res.Properties, w)
                 THEN acc
                 ELSE [acc EXCEPT !.Resources = Append(@, AzureResource(w.id, w))],
                 Tail(items))

\* the items of one page, in turn (listResource, the loop over page.Value)
RECURSIVE ProcessItems(_, _, _)
ProcessItems(t, acc, items) ==
    IF items = << >> THEN acc
    ELSE LET w == Head(items)
             err(msg) == [acc EXCEPT !.Errors =
                              Append(@, ListError(Endpoint(t), t.version, msg))]
         IN  ProcessItems(t,
                 IF w.idk = "malformed" THEN err("unmarshalling")
                 ELSE IF t.filter # "nil" /\ ~ApplyFilter(t.filter, t.res.Properties, w)
                 THEN acc
                 ELSE IF w.idk = "missing" THEN err("no resource id found in response")
                 ELSE IF w.idk # "string" THEN err("resource id is not a string")
                 ELSE IF ~ParseOk(w.id) THEN err("parsing resource id")
                 ELSE [acc EXCEPT !.Resources = Append(@, AzureResource(w.id, w))],
                 Tail(items))

\* the pager loop without the special case for 404
NextPageRecords404(t) ==
    LET pages == PagesAt(backend, Endpoint(t))
        page == pages[t.page + 1]
    IN  IF page.kind # "ok"
        THEN [t EXCEPT !.st = "finished",
                       !.Errors = Append(@, ListError(Endpoint(t), t.version, page.kind))]
        ELSE LET r == ProcessItems(t, [Resources |-> t.Resources, Errors |-> t.Errors],
                                   page.Value)
             IN  [t EXCEPT !.page = @ + 1,
                           !.Resources = r.Resources,
                           !.Errors = r.Errors,
                           !.st = IF t.page + 1 < Len(pages) THEN "running" ELSE "finished"]

\* the pager loop returning the failure of a page as the task's error
\* (as listDirectChildResource of src/azlist.go did)
NextPageFatal(t) ==
    LET pages == PagesAt(backend, Endpoint(t))
        page == pages[t.page + 1]
    IN  IF page.kind = "404" THEN [t EXCEPT !.st = "finished"]
        ELSE IF page.kind # "ok" THEN [t EXCEPT !.st = "failed"]
        ELSE LET r == ProcessItems(t, [Resources |-> t.Resources, Errors |-> t.Errors],
                                   page.Value)
             IN  [t EXCEPT !.page = @ + 1,
                           !.Resources = r.Resources,
                           !.Errors = r.Errors,
                           !.st = IF t.page + 1 < Len(pages) THEN "running" ELSE "finished"]

\* the pager loop without its two breaks: the walk goes on after a failed page
NextPageNoBreak(t) ==
    LET pages == PagesAt(backend, Endpoint(t))
        page == pages[t.page + 1]
        r == IF page.kind = "404" THEN [Resources |-> t.Resources, Errors |-> t.Errors]
             ELSE IF page.kind # "ok"
             THEN [Resources |-> t.Resources,
                   Errors |-> Append(t.Errors, ListError(Endpoint(t), t.version, page.kind))]
             ELSE ProcessItems(t, [Resources |-> t.Resources, Errors |-> t.Errors],
                               page.Value)
    IN  [t EXCEPT !.page = @ + 1,
                  !.Resources = r.Resources,
                  !.Errors = r.Errors,
                  !.st = IF t.page + 1 < Len(pages) THEN "running" ELSE "finished"]

\* the pager loop with requests that do not carry the context
NextPageWithoutCtx(t) ==
    LET pages == PagesAt(backend, Endpoint(t))
        page == pages[t.page + 1]
    IN  IF page.kind = "404" THEN [t EXCEPT !.st = "finished"]
        ELSE IF page.kind # "ok"
        THEN [t EXCEPT !.st = "finished",
                       !.Errors = Append(@, ListError(Endpoint(t), t.version, page.kind))]
        ELSE LET r == ProcessItems(t, [Resources |-> t.Resources, Errors |-> t.Errors],
                                   page.Value)
             IN  [t EXCEPT !.page = @ + 1,
                           !.Resources = r.Resources,
                           !.Errors = r.Errors,
                           !.st = IF t.page + 1 < Len(pages) THEN "running" ELSE "finished"]

\* one turn of the pager loop of listResource: the task after page.NextPage
NextPage(t) ==
    LET pages == PagesAt(backend, Endpoint(t))
        page == IF ctx.cancelled THEN Canceled ELSE pages[t.page + 1]
    IN  IF page.kind = "404" THEN [t EXCEPT !.st = "finished"]
        ELSE IF page.kind # "ok"
        THEN [t EXCEPT !.st = "finished",
                       !.Errors = Append(@, ListError(Endpoint(t), t.version, page.kind))]
        ELSE LET r == ProcessItems(t, [Resources |-> t.Resources, Errors |-> t.Errors],
                                   page.Value)
             IN  [t EXCEPT !.page = @ + 1,
                           !.Resources = r.Resources,
                           !.Errors = r.Errors,
                           !.st = IF t.page + 1 < Len(pages) THEN "running" ELSE "finished"]

Busy == {i \in 1..Len(tasks) : tasks[i].st \in {"running", "finished"}}
Queued == {i \in 1..Len(tasks) : tasks[i].st = "queued"}
Drained == \A i \in 1..Len(tasks) : tasks[i].st \in {"collected", "failed"}

\* the call counters stop counting at CallCap
Bump(calls, k) ==
    Put(calls, k, IF k \notin DOMAIN calls THEN 1
                  ELSE IF calls[k] < CallCap THEN calls[k] + 1 ELSE calls[k])

\* fmt.Errorf("no schema entry found for resource type %s", rt.Type), for the
\* unknown types of the model
NoSchemaEntry(type) ==
    IF type = Path(<<"y", "y">>) THEN "no schema entry found for y/y"
    ELSE "no schema entry found"

\* the closure of an extension task cannot resolve its type
UnknownType(t) == t.kind = "ext" /\ ToUpper(t.type) \notin DOMAIN ARMSchemaTree

\* a worker takes the oldest queued task; the closure of an extension task
\* resolves its type against the schema tree
StartTask ==
    /\ pc \in {"submit", "extsubmit"}
    /\ Queued # {}
    /\ Cardinality(Busy) < ListerParallelism(opt)
    /\ LET i == CHOOSE q \in Queued : \A r \in Queued : q <= r
           t == tasks[i]
           ut == ToUpper(t.type)
       IN  IF t.kind = "child" \/ UnknownType(t)
           THEN tasks' = [tasks EXCEPT ![i].st = "running"]
           ELSE tasks' = [tasks EXCEPT ![i].st = "running",
                                       ![i].crt = <<tPROV>> \o t.type,
                                       ![i].version = LatestVersion(ARMSchemaTree[ut].Versions)]
    /\ UNCHANGED <<build, opt, backend, ctx, pc, rl, el, seedVars, rset, eset, idx, nrl, nel,
                   wpErr, rgs, result, failure, run, ghostVars>>

\* the closure of an extension task of unknown type returns its error, which
\* the pool keeps if it is the first
TaskError(i) ==
    /\ pc \in {"submit", "extsubmit"}
    /\ tasks[i].st = "running"
    /\ UnknownType(tasks[i])
    /\ tasks' = [tasks EXCEPT ![i].st = "failed"]
    /\ wpErr' = IF wpErr = "nil" THEN NoSchemaEntry(tasks[i].type) ELSE wpErr
    /\ UNCHANGED <<build, opt, backend, ctx, pc, rl, el, seedVars, rset, eset, idx, nrl, nel,
                   rgs, result, failure, run, ghostVars>>

\* the task appending what it found to the pool's accumulators itself
WalkPageAppends(i) ==
    /\ pc \in {"submit", "extsubmit"}
    /\ tasks[i].st = "running"
    /\ ~UnknownType(tasks[i])
    /\ LET t == NextPage(tasks[i])
       IN  /\ tasks' = [tasks EXCEPT ![i] = [t EXCEPT !.Resources = << >>,
                                                       !.Errors = << >>]]
           /\ nrl' = nrl \o t.Resources
           /\ nel' = nel \o t.Errors
    /\ wpErr' = IF tasks'[i].st = "failed" /\ wpErr = "nil" THEN "task error" ELSE wpErr
    /\ listCalls' = Bump(listCalls, Endpoint(tasks[i]))
    /\ UNCHANGED <<build, opt, backend, ctx, pc, rl, el, seedVars, rset, eset, idx,
                   rgs, result, failure, run, rgCalls, preFilter, crawlOut, prevOut>>

\* a running task requests its next page and handles it
WalkPage(i) ==
    /\ pc \in {"submit", "extsubmit"}
    /\ tasks[i].st = "running"
    /\ ~UnknownType(tasks[i])
    /\ tasks' = [tasks EXCEPT ![i] = NextPage(tasks[i])]
    /\ wpErr' = IF tasks'[i].st = "failed" /\ wpErr = "nil" THEN "task error" ELSE wpErr
    /\ listCalls' = Bump(listCalls, Endpoint(tasks[i]))
    /\ UNCHANGED <<build, opt, backend, ctx, pc, rl, el, seedVars, rset, eset, idx, nrl, nel,
                   rgs, result, failure, run, rgCalls, preFilter, crawlOut, prevOut>>

\* the collector takes the result of a finished task
Collect(i) ==
    /\ pc \in {"submit", "extsubmit"}
    /\ tasks[i].st = "finished"
    /\ nrl' = nrl \o tasks[i].Resources
    /\ nel' = nel \o tasks[i].Errors
    /\ tasks' = [tasks EXCEPT ![i].st = "collected"]
    /\ UNCHANGED <<build, opt, backend, ctx, pc, rl, el, seedVars, rset, eset, idx, wpErr, rgs,
                   result, failure, run, ghostVars>>

(***************************************************************************)
(* ListChildResource.                                                      *)
(***************************************************************************)
\* the crawl started from the seeds the managed filter would keep
CrawlBeginUnmanagedOnly ==
    /\ pc = "crawl"
    /\ LET Unmanaged(r) == r.Properties.managedBy \in {"absent", ""}
       IN  rl' = IF ~opt.IncludeManaged THEN SelectSeq(rl, Unmanaged) ELSE rl
    /\ rset' = SeedSet(<< >>, rl')
    /\ eset' = << >>
    /\ pc' = "level"
    /\ UNCHANGED <<build, opt, backend, ctx, el, seedVars, poolVars, rgs, result, failure, run,
                   ghostVars>>

CrawlBegin ==
    /\ pc = "crawl"
    /\ rset' = SeedSet(<< >>, rl)
    /\ eset' = << >>
    /\ pc' = "level"
    /\ UNCHANGED <<build, opt, backend, ctx, rl, el, seedVars, poolVars, rgs, result, failure, run,
                   ghostVars>>

\* the loop goes on: a new pool and new accumulators
LevelBegin ==
    /\ pc = "level"
    /\ Len(rl) # 0
    /\ tasks' = << >> /\ idx' = 1 /\ nrl' = << >> /\ nel' = << >> /\ wpErr' = "nil"
    /\ pc' = "submit"
    /\ ctx' = IF ctx.cancelled THEN [ctx EXCEPT !.levels = @ + 1] ELSE ctx
    /\ UNCHANGED <<build, opt, backend, rl, el, seedVars, rset, eset, rgs, result, failure, run,
                   ghostVars>>

\* listDirectChildResource for the next resource of the frontier
SubmitChild ==
    /\ pc = "submit"
    /\ idx <= Len(rl)
    /\ \E ts \in DirectChildTasks(rl[idx]) : tasks' = tasks \o ts
    /\ idx' = idx + 1
    /\ UNCHANGED <<build, opt, backend, ctx, pc, rl, el, seedVars, rset, eset, nrl, nel, wpErr, rgs,
                   result, failure, run, ghostVars>>

\* the merge made without waiting for the pool
LevelMergeNoWait ==
    /\ pc = "submit"
    /\ idx > Len(rl)
    /\ IF wpErr # "nil"
       THEN /\ Fail(wpErr)
            /\ UNCHANGED <<rl, rset, eset>>
       ELSE /\ LET m == MergeResources(<< >>, rset, nrl)
               IN  rl' = m.rl /\ rset' = m.rset
            /\ eset' = MergeErrors(eset, nel)
            /\ pc' = "level"
            /\ UNCHANGED <<result, failure>>
    /\ UNCHANGED <<build, opt, backend, ctx, el, seedVars, poolVars, rgs, run, ghostVars>>

\* the merge that keeps the resources just expanded in the working list
LevelMergeKeepsFrontier ==
    /\ pc = "submit"
    /\ idx > Len(rl)
    /\ Drained
    /\ IF wpErr # "nil"
       THEN /\ Fail(wpErr)
            /\ UNCHANGED <<rl, rset, eset>>
       ELSE /\ LET m == MergeResources(<< >>, rset, nrl)
               IN  rl' = (IF m.rl = << >> THEN << >> ELSE rl \o m.rl) /\ rset' = m.rset
            /\ eset' = MergeErrors(eset, nel)
            /\ pc' = "level"
            /\ UNCHANGED <<result, failure>>
    /\ UNCHANGED <<build, opt, backend, ctx, el, seedVars, poolVars, rgs, run, ghostVars>>

\* wp.Done returned: the merge into rset and eset, and the next frontier
LevelMerge ==
    /\ pc = "submit"
    /\ idx > Len(rl)
    /\ Drained
    /\ IF wpErr # "nil"
       THEN /\ Fail(wpErr)
            /\ UNCHANGED <<rl, rset, eset>>
       ELSE /\ LET m == MergeResources(<< >>, rset, nrl)
               IN  rl' = m.rl /\ rset' = m.rset
            /\ eset' = MergeErrors(eset, nel)
            /\ pc' = "level"
            /\ UNCHANGED <<result, failure>>
    /\ UNCHANGED <<build, opt, backend, ctx, el, seedVars, poolVars, rgs, run, ghostVars>>

\* the frontier is empty: rset and eset are sorted and returned to List
CrawlReturn ==
    /\ pc = "level"
    /\ Len(rl) = 0
    /\ rl' \in SortResources(rset, DOMAIN rset)
    /\ el' \in SortErrors(eset, DOMAIN eset)
    /\ crawlOut' = [returned |-> TRUE, Resources |-> rl', Errors |-> el']
    /\ pc' = "filter"
    /\ UNCHANGED <<build, opt, backend, ctx, seedVars, rset, eset, poolVars, rgs, result, failure,
                   run, listCalls, rgCalls, preFilter, prevOut>>

(***************************************************************************)
(* List: the managed filter and the resource groups.                       *)
(***************************************************************************)
\* the test without the comparison with ""
ManagedIfPresent(res) == res.Properties.managedBy # "absent"

\* v, ok := res.Properties["managedBy"]; ok && v != ""
Managed(res) == res.Properties.managedBy \notin {"absent", ""}

RECURSIVE SelectUnmanaged(_)
SelectUnmanaged(l) ==
    IF l = << >> THEN << >>
    ELSE IF Managed(Head(l)) THEN SelectUnmanaged(Tail(l))
    ELSE <<Head(l)>> \o SelectUnmanaged(Tail(l))

AfterFilter ==
    IF opt.IncludeResourceGroup THEN "rg"
    ELSE IF Len(opt.ExtensionResourceTypes) # 0 THEN "ext"
    ELSE "return"

ManagedFilter ==
    /\ pc = "filter"
    /\ preFilter' = rl
    /\ rl' = IF ~opt.IncludeManaged THEN SelectUnmanaged(rl) ELSE rl
    /\ rgs' = << >>
    /\ idx' = 1
    /\ pc' = AfterFilter
    /\ UNCHANGED <<build, opt, backend, ctx, el, seedVars, rset, eset, tasks, nrl, nel, wpErr,
                   result, failure, run, listCalls, rgCalls, crawlOut, prevOut>>

\* the body of the loop over rl: the group of rl[idx] is fetched unless known
ResourceGroupStep ==
    /\ pc = "rg"
    /\ idx <= Len(rl)
    /\ LET root == RootScope(rl[idx].Id)
           resp == RgAt(backend, RgName(root))
       IN  IF ~IsResourceGroup(root) \/ ToUpper(root) \in DOMAIN rgs
           THEN UNCHANGED <<rgs, rgCalls, pc, result, failure>>
           ELSE /\ rgCalls' = Bump(rgCalls, ToUpper(root))
                /\ IF resp.err \/ ~ParseOk(resp.ID)
                   THEN Fail("rg") /\ UNCHANGED rgs
                   ELSE /\ rgs' = Put(rgs, ToUpper(root),
                                      AzureResource(resp.ID,
                                                    Doc(resp.ID, resp.managedBy, 1)))
                        /\ UNCHANGED <<pc, result, failure>>
    /\ idx' = idx + 1
    /\ UNCHANGED <<build, opt, backend, ctx, rl, el, seedVars, rset, eset, tasks, nrl, nel, wpErr,
                   run, listCalls, preFilter, crawlOut, prevOut>>

\* the groups are sorted and put in front of the list
ResourceGroupEnd ==
    /\ pc = "rg"
    /\ idx > Len(rl)
    /\ \E rgl \in SortResources(rgs, DOMAIN rgs) : rl' = rgl \o rl
    /\ pc' = IF Len(opt.ExtensionResourceTypes) # 0 THEN "ext" ELSE "return"
    /\ UNCHANGED <<build, opt, backend, ctx, el, seedVars, rset, eset, poolVars, rgs, result,
                   failure, run, ghostVars>>

(***************************************************************************)
(* ListExtensionResource.                                                  *)
(***************************************************************************)
ExtensionBegin ==
    /\ pc = "ext"
    /\ rset' = SeedSet(<< >>, rl)
    /\ eset' = << >>
    /\ tasks' = << >> /\ idx' = 1 /\ nrl' = << >> /\ nel' = << >> /\ wpErr' = "nil"
    /\ pc' = "extsubmit"
    /\ UNCHANGED <<build, opt, backend, ctx, rl, el, seedVars, rgs, result, failure, run, ghostVars>>

\* listExtensionResource for the next resource of the list
SubmitExtension ==
    /\ pc = "extsubmit"
    /\ idx <= Len(rl)
    /\ tasks' = tasks \o ExtensionTasks(rl[idx])
    /\ idx' = idx + 1
    /\ UNCHANGED <<build, opt, backend, ctx, pc, rl, el, seedVars, rset, eset, nrl, nel, wpErr, rgs,
                   result, failure, run, ghostVars>>

\* the merge made whatever wp.Done returned
ExtensionMergeIgnoresError ==
    /\ pc = "extsubmit"
    /\ idx > Len(rl)
    /\ Drained
    /\ rset' = MergeResources(<< >>, rset, nrl).rset
    /\ eset' = MergeErrors(<< >>, nel)
    /\ rl' \in SortResources(rset', DOMAIN rset')
    /\ \E extEl \in SortErrors(eset', DOMAIN eset') : el' = el \o extEl
    /\ pc' = "return"
    /\ UNCHANGED <<result, failure>>
    /\ UNCHANGED <<build, opt, backend, ctx, seedVars, poolVars, rgs, run, ghostVars>>

\* the extension phase made a loop as the crawl is: the resources it added
\* are the parents of a further pass
ExtensionMergeRecurses ==
    /\ pc = "extsubmit"
    /\ idx > Len(rl)
    /\ Drained
    /\ IF wpErr # "nil"
       THEN /\ Fail(wpErr)
            /\ UNCHANGED <<rl, el, rset, eset, poolVars>>
       ELSE LET m == MergeResources(<< >>, rset, nrl)
            IN  /\ rset' = m.rset
                /\ eset' = MergeErrors(eset, nel)
                /\ UNCHANGED <<result, failure>>
                /\ IF m.rl # << >>
                   THEN /\ rl' = m.rl
                        /\ tasks' = << >> /\ idx' = 1 /\ nrl' = << >> /\ nel' = << >>
                        /\ UNCHANGED <<el, pc, wpErr>>
                   ELSE /\ rl' \in SortResources(rset', DOMAIN rset')
                        /\ \E extEl \in SortErrors(eset', DOMAIN eset') : el' = el \o extEl
                        /\ pc' = "return"
                        /\ UNCHANGED poolVars
    /\ UNCHANGED <<build, opt, backend, ctx, seedVars, rgs, run, ghostVars>>

\* wp.Done returned: an error of a task is List's error; otherwise the merge,
\* the two sorts, and List appends the extension errors to its own
ExtensionMerge ==
    /\ pc = "extsubmit"
    /\ idx > Len(rl)
    /\ Drained
    /\ IF wpErr # "nil"
       THEN /\ Fail(wpErr)
            /\ UNCHANGED <<rl, el, rset, eset>>
       ELSE /\ rset' = MergeResources(<< >>, rset, nrl).rset
            /\ eset' = MergeErrors(<< >>, nel)
            /\ rl' \in SortResources(rset', DOMAIN rset')
            /\ \E extEl \in SortErrors(eset', DOMAIN eset') : el' = el \o extEl
            /\ pc' = "return"
            /\ UNCHANGED <<result, failure>>
    /\ UNCHANGED <<build, opt, backend, ctx, seedVars, poolVars, rgs, run, ghostVars>>

\* the managed filter applied once more to what List returns
ReturnUnmanagedOnly ==
    /\ pc = "return"
    /\ result' = [Resources |-> IF ~opt.IncludeManaged THEN SelectUnmanaged(rl) ELSE rl,
                  Errors |-> el]
    /\ pc' = "done"
    /\ UNCHANGED <<build, opt, backend, ctx, rl, el, seedVars, rset, eset, poolVars, rgs, failure,
                   run, ghostVars>>

\* return &ListResult{Resources: rl, Errors: el}, nil
Return ==
    /\ pc = "return"
    /\ result' = [Resources |-> rl, Errors |-> el]
    /\ pc' = "done"
    /\ UNCHANGED <<build, opt, backend, ctx, rl, el, seedVars, rset, eset, poolVars, rgs, failure,
                   run, ghostVars>>

\* List is called again with the same options on the same backing data
ListAgain ==
    /\ pc \in {"done", "failed"}
    /\ run < MaxRuns
    /\ run' = run + 1
    /\ prevOut' = crawlOut
    /\ pc' = "seed"
    /\ rl' = << >> /\ el' = << >>
    /\ total' = 0 /\ count' = 0 /\ skip' = 0 /\ skipToken' = "" /\ reqs' = 0
    /\ sent' = << >>
    /\ rset' = << >> /\ eset' = << >>
    /\ tasks' = << >> /\ idx' = 1 /\ nrl' = << >> /\ nel' = << >> /\ wpErr' = "nil"
    /\ rgs' = << >>
    /\ result' = NoResult
    /\ failure' = "nil"
    /\ listCalls' = << >> /\ rgCalls' = << >>
    /\ preFilter' = << >>
    /\ crawlOut' = NoCrawl
    /\ UNCHANGED <<build, opt, backend, ctx>>

Next ==
    \/ SeedFirst
    \/ SeedNext
    \/ SeedReturn
    \/ CrawlBegin
    \/ LevelBegin
    \/ SubmitChild
    \/ StartTask
    \/ \E i \in 1..Len(tasks) : WalkPage(i)
    \/ \E i \in 1..Len(tasks) : TaskError(i)
    \/ \E i \in 1..Len(tasks) : Collect(i)
    \/ LevelMerge
    \/ CrawlReturn
    \/ ManagedFilter
    \/ ResourceGroupStep
    \/ ResourceGroupEnd
    \/ ExtensionBegin
    \/ SubmitExtension
    \/ ExtensionMerge
    \/ Return
    \/ ListAgain

Spec == Init /\ [][Next]_vars

(***************************************************************************)
(* BuildARMSchemaTree on its own, for the mappings of SchemaFiles.          *)
(***************************************************************************)
\* the keys the mappings are made of, and the version list of each
SchemaKeys ==
    LET vnets == Path(<<"n", "vnets">>)
    IN  { vnets,
          Path(<<"N", "VNETS">>),
          vnets \o <<EmptySeg>>,
          vnets \o <<EmptySeg, EmptySeg>>,
          Path(<<"N", "vnets", "subnets">>),
          Path(<<"n", "vnets", "ips">>),
          Path(<<"n", "q", "ips">>),
          Path(<<"x">>),
          Path(<<"x">>) \o <<EmptySeg>> }

FileVersions(rt) ==
    IF rt = Path(<<"n", "vnets">>) THEN <<"v1", "v2">>
    ELSE IF rt = Path(<<"N", "VNETS">>) THEN <<"v3">>
    ELSE IF rt = Path(<<"n", "vnets">>) \o <<EmptySeg, EmptySeg>> THEN <<"v2">>
    ELSE IF rt = Path(<<"n", "vnets", "ips">>) THEN << >>
    ELSE <<"v1">>

\* a mapping has at most this many keys
MaxKeys == 3

SchemaFiles ==
    {[rt \in S |-> FileVersions(rt)] :
        S \in {T \in SUBSET SchemaKeys : Cardinality(T) <= MaxKeys}}

\* no Lister: List's variables stay as they are
NoLister ==
    /\ opt = [Recursive |-> FALSE, IncludeManaged |-> FALSE,
              IncludeResourceGroup |-> FALSE, ExtensionResourceTypes |-> << >>,
              Parallelism |-> Parallelism]
    /\ backend = [seed |-> << >>, list |-> << >>, rg |-> << >>]
    /\ ctx = Background
    /\ pc = "new"
    /\ run = 1
    /\ prevOut = NoCrawl
    /\ Idle

ListVars ==
    <<opt, backend, ctx, pc, rl, el, seedVars, rset, eset, poolVars, rgs, result, failure,
      run, ghostVars>>

BuildInit ==
    /\ \E file \in SchemaFiles : build = BuildStart(file, 1, NoBuild)
    /\ NoLister

\* the validation loop
BuildValidate ==
    /\ build.pc = "validate"
    /\ build' = [build EXCEPT !.pc = IF ValidateOk(build.armSchemas) THEN "rename"
                                     ELSE "failed"]
    /\ UNCHANGED ListVars

\* the keys with a trailing slash are collected and renamed
BuildRename ==
    /\ build.pc = "rename"
    /\ \E order \in Orders(RenameRTs(build.armSchemas)) :
          build' = [build EXCEPT !.armSchemas = RenameAll(build.armSchemas, order),
                                 !.pc = "level"]
    /\ UNCHANGED ListVars

\* one pass of `for remains > 0`
BuildLevelStep ==
    /\ build.pc = "level"
    /\ DOMAIN build.armSchemas # {}
    /\ build.level <= MaxLevel
    /\ \E order \in Orders(Batch(build.armSchemas, build.level)) :
          build' = [build EXCEPT
                       !.b = BuildLevel(build.b, build.armSchemas, build.level, order),
                       !.armSchemas = MapRemove(build.armSchemas,
                                                Batch(build.armSchemas, build.level)),
                       !.level = build.level + 1]
    /\ UNCHANGED ListVars

\* remains = 0: return tree, nil
BuildReturn ==
    /\ build.pc = "level"
    /\ DOMAIN build.armSchemas = {}
    /\ build' = [build EXCEPT !.pc = "done"]
    /\ UNCHANGED ListVars

\* BuildARMSchemaTree is called again on the same mapping
BuildAgain ==
    /\ build.pc \in {"done", "failed"}
    /\ build.run < MaxRuns
    /\ build' = BuildStart(build.file, build.run + 1,
                           IF build.pc = "done"
                           THEN [valid |-> TRUE, canon |-> Canon(build.b)]
                           ELSE NoBuild)
    /\ UNCHANGED ListVars

BuildNext ==
    \/ BuildValidate
    \/ BuildRename
    \/ BuildLevelStep
    \/ BuildReturn
    \/ BuildAgain

BuildSpec == BuildInit /\ [][BuildNext]_vars

\* one recursive List up to the return of ListChildResource
CrawlInit ==
    /\ Init
    /\ opt.Recursive /\ ~opt.IncludeManaged /\ ~opt.IncludeResourceGroup
    /\ opt.ExtensionResourceTypes = << >>

CrawlNext ==
    \/ SeedFirst \/ SeedNext \/ SeedReturn
    \/ CrawlBegin \/ LevelBegin \/ SubmitChild \/ StartTask
    \/ \E i \in 1..Len(tasks) : WalkPage(i)
    \/ \E i \in 1..Len(tasks) : Collect(i)
    \/ LevelMerge \/ CrawlReturn

\* the same under fair scheduling of the coordinator, the workers and the
\* collector
CrawlSpec == CrawlInit /\ [][CrawlNext]_vars /\ WF_vars(CrawlNext)

\* the caller cancels the context while ListChildResource runs
Cancel ==
    /\ pc \in {"crawl", "level", "submit"}
    /\ ~ctx.cancelled
    /\ ctx' = [cancelled |-> TRUE, levels |-> 0,
               had |-> {Key(rl[k]) : k \in 1..Len(rl)} \cup DOMAIN rset
                       \cup {Key(nrl[k]) : k \in 1..Len(nrl)}
                       \cup UNION {{Key(tasks[i].Resources[k]) :
                                       k \in 1..Len(tasks[i].Resources)} :
                                   i \in {j \in 1..Len(tasks) :
                                             tasks[j].st = "finished"}}]
    /\ UNCHANGED <<build, opt, backend, pc, rl, el, seedVars, rset, eset, poolVars, rgs,
                   result, failure, run, ghostVars>>

CancelNext == CrawlNext \/ Cancel

\* the crawl under fair scheduling, with a caller that may cancel at any moment
CancelSpec == CrawlInit /\ [][CancelNext]_vars /\ WF_vars(CrawlNext)

\* One recursive List with extension types, for every configured parallelism
\* up to Parallelism, 0 included, and with unknown extension types configured
\* after a known one
PoolExtensionChoices ==
    { << ExtensionResource(Path(<<"auth", "ra">>), "nil") >>,
      << ExtensionResource(Path(<<"auth", "ra">>), "nil"),
         ExtensionResource(Path(<<"y", "y">>), "nil"),
         ExtensionResource(Path(<<"q", "q">>), "nil") >> }

PoolOptions ==
    [Recursive : {TRUE}, IncludeManaged : {TRUE}, IncludeResourceGroup : {FALSE},
     ExtensionResourceTypes : PoolExtensionChoices, Parallelism : 0..Parallelism]

PoolBackends ==
    {b \in Backends :
        /\ Len(b.seed) <= 2
        /\ \A i \in 1..Len(b.seed) : ~b.seed[i].err /\ b.seed[i].Count = 1
        /\ b.seed[1].TotalRecords = 2}

PoolInit ==
    /\ build = ListerBuilt
    /\ opt \in PoolOptions
    /\ backend \in PoolBackends
    /\ ctx = Background
    /\ run = 1
    /\ prevOut = NoCrawl
    /\ Fresh

PoolNext ==
    \/ SeedFirst \/ SeedNext \/ SeedReturn
    \/ CrawlBegin \/ LevelBegin \/ SubmitChild \/ StartTask
    \/ \E i \in 1..Len(tasks) : WalkPage(i)
    \/ \E i \in 1..Len(tasks) : TaskError(i)
    \/ \E i \in 1..Len(tasks) : Collect(i)
    \/ LevelMerge \/ CrawlReturn \/ ManagedFilter
    \/ ExtensionBegin \/ SubmitExtension \/ ExtensionMerge \/ Return

PoolSpec == PoolInit /\ [][PoolNext]_vars

(***************************************************************************)
(* Properties.                                                             *)
(***************************************************************************)
Range(q) == {q[i] : i \in 1..Len(q)}

NoTwoSameId(l) ==
    \A i, j \in 1..Len(l) : i # j => ToUpper(l[i].Id) # ToUpper(l[j].Id)

NoTwoSameEndpoint(l) ==
    \A i, j \in 1..Len(l) : i # j => ToUpper(l[i].Endpoint) # ToUpper(l[j].Endpoint)

\* C1: whenever List returns successfully, no two resources of the result share
\* the upper-cased id and no two errors share the upper-cased endpoint.
C1_ResultDeduped ==
    pc = "done" => NoTwoSameId(result.Resources) /\ NoTwoSameEndpoint(result.Errors)

\* C2: the breadth-first loop of ListChildResource halts: once the crawl has
\* begun, under fair scheduling it eventually returns.
C2_CrawlHalts == (pc = "crawl") ~> crawlOut.returned

\* a crawl over data in which a listing gives back a seed has returned
C2_Witness ==
    /\ crawlOut.returned
    /\ (ToUpper(S1) \o IPS) \in DOMAIN listCalls
    /\ \E w \in Range(PagesAt(backend, ToUpper(S1) \o IPS)[1].Value) : w.id = V1
    /\ \E r \in Range(crawlOut.Resources) : r.Id = V1
    /\ Len(crawlOut.Resources) = 3

\* C3: two crawls over the same backing data and the same seeds return the same
\* resource list and the same error list.
C3_CrawlsAgree ==
    (crawlOut.returned /\ prevOut.returned) => crawlOut = prevOut

AscendingIds(l) == \A i, j \in 1..Len(l) : i < j => ~StrLess(l[j].Id, l[i].Id)

AscendingEndpoints(l) ==
    \A i, j \in 1..Len(l) : i < j => ~StrLess(l[j].Endpoint, l[i].Endpoint)

\* C4: the result of List has its resources in ascending order of id and its
\* errors in ascending order of endpoint.
C4_ResultSorted ==
    pc = "done" => AscendingIds(result.Resources) /\ AscendingEndpoints(result.Errors)

Occurrences(l, x) == Cardinality({i \in 1..Len(l) : l[i] = x})

Kept(r) == opt.IncludeManaged \/ r.Properties.managedBy \in {"absent", ""}

Ended == {i \in 1..Len(tasks) : tasks[i].st \in {"finished", "collected"}}

\* the page a walk ended on when it ended on a failure
StoppedOn(t) == PagesAt(backend, Endpoint(t))[t.page + 1]

EndedOnFailure(t) == t.page < Len(PagesAt(backend, Endpoint(t)))

\* C6, for a failure on any page: a walk that ended on a 404 contributes no
\* child and no error; one that ended on another failure contributes no child
\* and exactly one error.
C6_FailureOnAnyPage ==
    \A i \in Ended :
        LET t == tasks[i]
        IN  EndedOnFailure(t) =>
                /\ t.Resources = << >>
                /\ Len(t.Errors) = IF StoppedOn(t).kind = "404" THEN 0 ELSE 1

WellFormedItem(w) == w.idk = "string" /\ ParseOk(w.id)

RECURSIVE ItemCount(_, _, _)
ItemCount(pages, n, good) ==
    IF n = 0 THEN 0
    ELSE ItemCount(pages, n - 1, good)
         + Cardinality({k \in 1..Len(pages[n].Value) :
                           WellFormedItem(pages[n].Value[k]) = good})

\* C6, page by page: a failure on the first page gives no child, and no error
\* (404) or exactly one (other failure); a failure on a later page ends the
\* walk and adds no error (404) or exactly one (other failure) to the children
\* and the item errors of the pages before it, which are kept.
C6_FailureEndsWalk ==
    \A i \in Ended :
        LET t == tasks[i]
            pages == PagesAt(backend, Endpoint(t))
        IN  EndedOnFailure(t) =>
                /\ Len(t.Resources) = ItemCount(pages, t.page, TRUE)
                /\ Len(t.Errors) = ItemCount(pages, t.page, FALSE)
                                   + IF StoppedOn(t).kind = "404" THEN 0 ELSE 1
                /\ t.page = 0 => t.Resources = << >>

\* a walk has ended on a failure of its second page with a child of the first
C6_Witness ==
    \E i \in Ended :
        /\ EndedOnFailure(tasks[i])
        /\ tasks[i].page = 1
        /\ StoppedOn(tasks[i]).kind = "500"
        /\ Len(tasks[i].Resources) = 1

\* the walk of an endpoint meets a failure other than 404, or an item that
\* does not parse, before it ends
WalkHasError(e) ==
    LET pages == PagesAt(backend, e)
    IN  \E p \in 1..Len(pages) :
            /\ \A q \in 1..(p - 1) : pages[q].kind = "ok"
            /\ \/ pages[p].kind = "500"
               \/ pages[p].kind = "ok"
                  /\ \E k \in 1..Len(pages[p].Value) : ~WellFormedItem(pages[p].Value[k])

\* C7: a failure of a listing or of an item is not fatal: List returns an error
\* only for a failed seed query, a failed group lookup or an unknown extension
\* type; every resource of the crawl's output has had each of its child
\* endpoints walked (stated where ListChildResource returns: its output and
\* the walks made do not change from there to the end of List); and every
\* endpoint whose walk met an error has an error record in the result.
C7_ListErrorNotFatal ==
    /\ failure \in {"nil", "seed", "rg", "no schema entry found"}
    /\ (pc = "filter" /\ crawlOut.returned) =>
          \A r \in Range(crawlOut.Resources) : \A ts \in DirectChildTasks(r) :
              \A i \in 1..Len(ts) : Endpoint(ts[i]) \in DOMAIN listCalls
    /\ pc = "done" =>
          \A e \in DOMAIN listCalls :
              WalkHasError(e) => \E le \in Range(result.Errors) : le.Endpoint = e

\* List has returned a result with two error records and a resource of the
\* third level, found below a listing that failed on its second page
C7_Witness ==
    /\ pc = "done" /\ opt.Recursive
    /\ Len(result.Errors) >= 2
    /\ \E r \in Range(result.Resources) : r.Id = I1
    /\ \E le \in Range(result.Errors) : le.Endpoint = ToUpper(V1) \o SUBNETS

UnknownExtensionType ==
    \E i \in 1..Len(opt.ExtensionResourceTypes) :
        ToUpper(opt.ExtensionResourceTypes[i].Type) \notin DOMAIN ARMSchemaTree

\* C8: whenever an extension type has no entry in the schema tree, List does
\* not return a result.
C8_UnknownTypeAborts == UnknownExtensionType => pc # "done"

SeedRequestFailed == \E k \in 1..reqs : SeedAt(k).err

\* C9: if a request of the seed query failed, List returns an error and no
\* result, and issues no child listing, group lookup or extension listing.
C9_SeedFailureFatal ==
    SeedRequestFailed =>
        /\ pc = "failed" /\ failure = "seed"
        /\ result = NoResult
        /\ listCalls = << >> /\ rgCalls = << >>
        /\ tasks = << >>

\* the second request of the seed query failed after a first page with items
C9_Witness ==
    /\ pc = "failed" /\ reqs = 2
    /\ SeedAt(2).err /\ Len(SeedAt(1).Data) > 0
    /\ opt.Recursive /\ opt.IncludeResourceGroup /\ Len(opt.ExtensionResourceTypes) # 0

Survivors == IF opt.IncludeManaged THEN preFilter ELSE SelectUnmanaged(preFilter)

\* C10: with IncludeResourceGroup, every resource group of a surviving resource
\* is fetched exactly once and has exactly one entry in the result.
C10_OneEntryPerGroup ==
    (pc = "done" /\ opt.IncludeResourceGroup) =>
        \A g \in {ToUpper(RootScope(r.Id)) : r \in Range(Survivors)} :
            /\ g \in DOMAIN rgCalls /\ rgCalls[g] = 1
            /\ Cardinality({i \in 1..Len(result.Resources) :
                               ToUpper(result.Resources[i].Id) = g}) = 1

\* the items of the first n pages of a listing, in the order listed
RECURSIVE PageItems(_, _)
PageItems(pages, n) ==
    IF n = 0 THEN << >> ELSE PageItems(pages, n - 1) \o pages[n].Value

\* the extension walks that ran with the role-assignment filter and have ended
FilteredWalks ==
    {i \in Ended : tasks[i].kind = "ext" /\ tasks[i].filter = "roleAssignments"}

ScopeIsParent(t, w) ==
    w.scope # << >> /\ ToUpper(w.scope) = ToUpper(t.res.Properties.id)

\* C11, for every candidate: a candidate listed under parent p is in the walk's
\* result if and only if its scope is p's id, letter case aside.
C11_FilterIff ==
    \A i \in FilteredWalks :
        LET t == tasks[i]
        IN  \A w \in Range(PageItems(PagesAt(backend, Endpoint(t)), t.page)) :
                (\E r \in Range(t.Resources) : r.Properties = w) <=> ScopeIsParent(t, w)

\* C11, for the candidates that can be added: the result of a filtered walk is
\* the candidates whose scope is the parent's id (letter case aside) and whose
\* id parses, in the order listed; and List returns them.
C11_FilterKeeps ==
    \A i \in FilteredWalks :
        LET t == tasks[i]
            Keep(w) == ScopeIsParent(t, w) /\ WellFormedItem(w)
            kept == SelectSeq(PageItems(PagesAt(backend, Endpoint(t)), t.page), Keep)
        IN  /\ t.Resources = [k \in 1..Len(kept) |-> AzureResource(kept[k].id, kept[k])]
            /\ pc = "done" =>
                  \A k \in 1..Len(kept) :
                      \E r \in Range(result.Resources) : ToUpper(r.Id) = ToUpper(kept[k].id)

\* List has returned after a filtered walk under parent .../vnets/a that listed
\* a candidate with scope .../vnets/A, kept, and one with another scope, dropped
C11_Witness ==
    /\ pc = "done"
    /\ \E i \in FilteredWalks :
          /\ tasks[i].res.Id = V1
          /\ \E w \in Range(PagesAt(backend, Endpoint(tasks[i]))[1].Value) :
                w.id = R1 /\ w.scope = V1u
          /\ \E w \in Range(PagesAt(backend, Endpoint(tasks[i]))[1].Value) :
                w.id = R2 /\ w.scope = V2
          /\ Len(tasks[i].Resources) = 1
    /\ \E r \in Range(result.Resources) : r.Id = R1
    /\ \A r \in Range(result.Resources) : r.Id # R2

\* the pages of a listing fetched with success: those before its first failure
FetchedPages(pages) ==
    {q \in 1..Len(pages) : \A k \in 1..q : pages[k].kind = "ok"}

InOutput(id) == \E r \in Range(crawlOut.Resources) : ToUpper(r.Id) = ToUpper(id)

\* C12: the output of ListChildResource is closed under listing: for every
\* resource of the output and every child type the schema tree declares for
\* it, every item with a parseable id on every page of that listing fetched
\* with success is in the output (ids compared as the crawl does, upper-cased).
\* Stated where ListChildResource returns; List does not touch that output
\* afterwards.
C12_ClosedUnderListing ==
    (pc = "filter" /\ crawlOut.returned) =>
        \A r \in Range(crawlOut.Resources) : \A ts \in DirectChildTasks(r) :
            \A i \in 1..Len(ts) :
                LET pages == PagesAt(backend, Endpoint(ts[i]))
                IN  \A q \in FetchedPages(pages) : \A k \in 1..Len(pages[q].Value) :
                        WellFormedItem(pages[q].Value[k]) => InOutput(pages[q].Value[k].id)

\* a crawl has returned a resource of the third level, listed under a child
C12_Witness ==
    /\ crawlOut.returned
    /\ InOutput(V1) /\ InOutput(S1) /\ InOutput(I1)
    /\ \E w \in Range(PagesAt(backend, ToUpper(S1) \o IPS)[1].Value) : w.id = I1
    /\ (ToUpper(S1) \o IPS) \in DOMAIN listCalls

\* the items of the seed query's responses so far, as resources
RECURSIVE SeedResources(_)
SeedResources(k) ==
    IF k = 0 THEN << >>
    ELSE SeedResources(k - 1) \o
         [j \in 1..Len(SeedAt(k).Data) |->
             AzureResource(SeedAt(k).Data[j].id, SeedAt(k).Data[j])]

SameResources(l, m) ==
    \A x \in Range(l) \cup Range(m) : Occurrences(l, x) = Occurrences(m, x)

DefaultList ==
    /\ pc = "done"
    /\ ~opt.Recursive /\ ~opt.IncludeResourceGroup /\ opt.ExtensionResourceTypes = << >>

Unmanaged(r) == r.Properties.managedBy \in {"absent", ""}

RECURSIVE Cumulative(_)
Cumulative(k) == IF k = 0 THEN 0 ELSE Cumulative(k - 1) + SeedAt(k).Count

\* the continuation token most recently returned by the first k responses
RECURSIVE LatestToken(_)
LatestToken(k) ==
    IF k = 0 THEN ""
    ELSE IF SeedAt(k).SkipToken # "nil" THEN SeedAt(k).SkipToken
    ELSE LatestToken(k - 1)

SeedLoopLeft == pc \notin {"seed", "seedloop"} /\ failure # "seed"

\* C14: the k-th follow-up request of the seed query carries offset 1000 * k
\* and the token most recently returned; a request is sent only after the
\* response to the one before it, and only while the cumulative count is below
\* the total; the loop ends when the count has reached the total; and the list
\* ListTrackedResources returns holds every item of every page fetched.
C14_SeedPagination ==
    /\ [](/\ Len(sent) = reqs
          /\ \A k \in 1..Len(sent) :
                IF k = 1 THEN sent[k].first
                ELSE /\ ~sent[k].first
                     /\ sent[k].Skip = 1000 * (k - 1)
                     /\ sent[k].SkipToken = LatestToken(k - 1)
                     /\ Cumulative(k - 1) < SeedAt(1).TotalRecords
          /\ SeedLoopLeft => Cumulative(reqs) >= SeedAt(1).TotalRecords)
    /\ [][(pc = "seedloop" /\ pc' \notin {"seedloop", "failed"}) =>
              SameResources(rl', SeedResources(reqs))]_vars

\* the seed list was returned after three requests, the third one carrying the
\* token of the second response
C14_Witness ==
    /\ SeedLoopLeft
    /\ Len(sent) = 3
    /\ sent[3].Skip = 2000 /\ sent[3].SkipToken = "t2"
    /\ SeedAt(1).SkipToken = "t1"

\* the k-th response leaves the count below the total and has no continuation
\* token or no items
Exhausted(k) ==
    /\ ~SeedAt(k).err
    /\ Cumulative(k) < SeedAt(1).TotalRecords
    /\ SeedAt(k).SkipToken = "nil" \/ SeedAt(k).Count = 0

\* C15: after a response that leaves the count below the total and carries no
\* continuation token or no items, no further request is sent.
C15_NoRequestAfterExhausted ==
    \A k \in 1..reqs : Exhausted(k) => reqs = k

\* the entry the tree under construction holds at a key
EntryAt(k) == build.b.heap[build.b.tree[k]]

Parent(k) == SubSeq(k, 1, Len(k) - 1)

\* the entry of key k is stored in the children of the entry of its parent path
Linked(k) ==
    /\ Parent(k) \in DOMAIN build.b.tree
    /\ Last(k) \in DOMAIN EntryAt(Parent(k)).Children
    /\ EntryAt(Parent(k)).Children[Last(k)] = build.b.tree[k]

\* every input key has its entry, linked under its parent exactly if the parent
\* path is a key (letter case aside), and the children hold nothing else
TreeMirrors(file) ==
    /\ \A rt \in DOMAIN file :
          /\ ToUpper(rt) \in DOMAIN build.b.tree
          /\ EntryAt(ToUpper(rt)).Versions = file[rt]
          /\ Linked(ToUpper(rt)) <=>
                \E p \in DOMAIN file : ToUpper(p) = Parent(ToUpper(rt))
    /\ \A k \in DOMAIN build.b.tree : \A seg \in DOMAIN EntryAt(k).Children :
          /\ \E rt \in DOMAIN file : ToUpper(rt) = k \o <<seg>>
          /\ Linked(k \o <<seg>>)

Plain(file) ==
    /\ \A rt \in DOMAIN file : ~HasSuffixSlash(rt)
    /\ \A r1, r2 \in DOMAIN file : ToUpper(r1) = ToUpper(r2) => r1 = r2

C17_BuildDeterministic ==
    (build.pc = "done" /\ build.prev.valid) => Canon(build.b) = build.prev.canon

\* C18: if a key of the mapping has fewer than two segments the build fails
\* and no tree is built; every entry of a tree is keyed by a path of at least
\* two segments.
C18_MalformedKeyFails ==
    /\ (\E rt \in DOMAIN build.file : Len(rt) < 2) =>
          build.pc \in {"validate", "failed"} /\ build.b = EmptyTree
    /\ \A k \in DOMAIN build.b.tree : Len(k) >= 2

\* the build failed on a mapping with one single-segment key among three
C18_Witness ==
    /\ build.pc = "failed"
    /\ Cardinality(DOMAIN build.file) = 3
    /\ Cardinality({rt \in DOMAIN build.file : Len(rt) < 2}) = 1

\* C19, for every accepted mapping: the returned tree has as many top-level
\* entries as the mapping has keys.
C19_OneEntryPerKey ==
    build.pc = "done" =>
        Cardinality(DOMAIN build.b.tree) = Cardinality(DOMAIN build.file)

\* C19, with the merges: the returned tree has at most as many top-level
\* entries as the mapping has keys, and exactly as many when no key ends in a
\* slash and no two keys differ only in letter case.
C19_EntriesCount ==
    build.pc = "done" =>
        /\ Cardinality(DOMAIN build.b.tree) <= Cardinality(DOMAIN build.file)
        /\ Plain(build.file) =>
              Cardinality(DOMAIN build.b.tree) = Cardinality(DOMAIN build.file)

\* a tree of three entries was returned for a mapping of three keys, one of
\* them without its parent
C19_Witness ==
    /\ build.pc = "done" /\ Plain(build.file)
    /\ Cardinality(DOMAIN build.file) = 3
    /\ Cardinality(DOMAIN build.b.tree) = 3
    /\ Path(<<"n", "q", "ips">>) \in DOMAIN build.file

\* C20: in the level loop every remaining entry has its level still ahead, so
\* that it is processed and removed when the loop gets there.
C20_RemainingAhead ==
    build.pc = "level" =>
        \A rt \in DOMAIN build.armSchemas : Len(rt) >= build.level

\* the version strings of a set, in the order of sort.Strings
SortedVersions(S) ==
    SortStrings(CHOOSE q \in [1..Cardinality(S) -> S] : \A v \in S : \E i \in DOMAIN q : q[i] = v)

VersionSet(l) == {l[i] : i \in 1..Len(l)}

\* K is a key without trailing slash that no other key equals letter case
\* aside, and K/ is a key
HasDuplicate(file, K) ==
    /\ K \in DOMAIN file /\ ~HasSuffixSlash(K)
    /\ (K \o <<EmptySeg>>) \in DOMAIN file
    /\ \A r \in DOMAIN file : Len(r) = Len(K) /\ ToUpper(r) = ToUpper(K) => r = K

\* C21: when the mapping holds a key K and its duplicate K/, the returned tree
\* has at K the union of both version lists, sorted and without a repeated
\* version, and no entry for K/; when only K/ is a key (and no key equals K
\* letter case aside) the entry at K has the version list of K/ unchanged.
C21_DuplicateMerged ==
    build.pc = "done" =>
        \A r \in DOMAIN build.file :
            LET K == TrimSuffixSlash(r)
                up == ToUpper(K)
            IN  (HasSuffixSlash(r) /\ ~HasSuffixSlash(K)) =>
                   /\ HasDuplicate(build.file, K) =>
                         /\ up \in DOMAIN build.b.tree
                         /\ EntryAt(up).Versions =
                               SortedVersions(VersionSet(build.file[K])
                                              \cup VersionSet(build.file[r]))
                         /\ ToUpper(r) \notin DOMAIN build.b.tree
                   /\ (\A k \in DOMAIN build.file : ToUpper(k) # up) =>
                         /\ up \in DOMAIN build.b.tree
                         /\ EntryAt(up).Versions = build.file[r]
                         /\ ToUpper(r) \notin DOMAIN build.b.tree

\* C22: the crawl is level-synchronous: while a level's pool is open every
\* task in it lists under a resource of the present frontier, already passed
\* by the submission loop; and when the frontier has been replaced (or the
\* crawl is about to return) every task of the level before has been
\* collected and every resource it found is in the result set.
C22_LevelSynchronous ==
    /\ pc = "submit" =>
          \A i \in 1..Len(tasks) : \E k \in 1..(idx - 1) : tasks[i].res = rl[k]
    /\ pc = "level" =>
          \A i \in 1..Len(tasks) :
              /\ tasks[i].st = "collected"
              /\ \A r \in Range(tasks[i].Resources) : Key(r) \in DOMAIN rset

\* a task of the second level is running: it lists under a child found by the
\* first level, which is in the result set
C22_Witness ==
    /\ pc = "submit"
    /\ Key(AzureResource(S1, << >>)) \in DOMAIN rset
    /\ \A k \in 1..Len(rl) : rl[k].Id # V1
    /\ \E i \in 1..Len(tasks) : tasks[i].res.Id = S1 /\ tasks[i].st = "running"

Running == {i \in 1..Len(tasks) : tasks[i].st = "running"}

\* C23: at every moment at most N listing tasks are executing, N being the
\* configured parallelism, or the host's CPU count when 0 is configured,
\* however many tasks have been submitted.
C23_BoundedParallelism ==
    Cardinality(Running) <= IF opt.Parallelism = 0 THEN NumCPU ELSE opt.Parallelism

\* with 0 configured, as many tasks as the host has CPUs are executing and
\* another one is waiting for a worker
C23_Witness ==
    /\ opt.Parallelism = 0
    /\ Cardinality(Running) = NumCPU
    /\ Queued # {}

\* no task of the pool is queued, executing or waiting for the collector
NoTaskAlive == \A i \in 1..Len(tasks) : tasks[i].st \in {"collected", "failed"}

\* one run of the collector callback: the result of one finished task is
\* appended to the accumulators, nothing else of the pool changes
CollectorStep ==
    \E i \in 1..Len(tasks) :
        /\ tasks[i].st = "finished"
        /\ tasks' = [tasks EXCEPT ![i].st = "collected"]
        /\ nrl' = nrl \o tasks[i].Resources
        /\ nel' = nel \o tasks[i].Errors

\* C24: the accumulators of a pool are written only by the collector, one
\* result at a time, or emptied when the pool is created; the working list
\* and the sets R and E are written only while no task is queued, executing or
\* waiting for the collector, and the merge reads the accumulators only then.
C24_NoRace ==
    [][ /\ (nrl' # nrl \/ nel' # nel) =>
              \/ CollectorStep
              \/ NoTaskAlive /\ tasks' = << >> /\ nrl' = << >> /\ nel' = << >>
        /\ (rl' # rl \/ rset' # rset \/ eset' # eset) => NoTaskAlive
        /\ (pc \in {"submit", "extsubmit"} /\ pc' # pc) => NoTaskAlive ]_vars

\* the collector has appended a result while another task is executing
C24_Witness ==
    /\ pc = "submit"
    /\ nrl # << >>
    /\ Running # {}

\* the configured extension types the schema tree does not know, in order
RECURSIVE UnknownTypes(_)
UnknownTypes(rtl) ==
    IF rtl = << >> THEN << >>
    ELSE IF ToUpper(Head(rtl).Type) \in DOMAIN ARMSchemaTree THEN UnknownTypes(Tail(rtl))
    ELSE <<Head(rtl).Type>> \o UnknownTypes(Tail(rtl))

\* the walk of a task went to the end of its listing or to its first failure
WalkedToEnd(t) ==
    LET pages == PagesAt(backend, Endpoint(t))
    IN  /\ Endpoint(t) \in DOMAIN listCalls
        /\ t.page = Len(pages) \/ pages[t.page + 1].kind # "ok"

\* C25: when a task of the extension pool returns an error (an unknown
\* extension type), List returns only after every task submitted has
\* finished, one per resource and configured type; the tasks of the known
\* types were not cancelled: each walked its listing to the end and was
\* collected; List returns no result and the error the pool kept, which is
\* the error of the first task that failed: no task had failed when it was
\* recorded and it is not replaced in that pool.  And List never returns a
\* result when a task returned an error.
C25_TaskErrorEndsList ==
    /\ []((pc = "failed" /\ failure \notin {"nil", "seed", "rg"}) =>
            /\ Len(tasks) = Len(rl) * Len(opt.ExtensionResourceTypes)
            /\ \A i \in 1..Len(tasks) :
                  IF ToUpper(tasks[i].type) \in DOMAIN ARMSchemaTree
                  THEN tasks[i].st = "collected" /\ WalkedToEnd(tasks[i])
                  ELSE tasks[i].st = "failed"
            /\ failure = wpErr
            /\ result = NoResult)
    /\ [](pc \in {"return", "done"} => UnknownTypes(opt.ExtensionResourceTypes) = << >>)
    /\ [][ /\ (wpErr = "nil" /\ wpErr' # "nil") =>
                 /\ \A i \in 1..Len(tasks) : tasks[i].st # "failed"
                 /\ \E i \in 1..Len(tasks) :
                       /\ tasks[i].st = "running" /\ tasks'[i].st = "failed"
                       /\ wpErr' = NoSchemaEntry(tasks[i].type)
           /\ (wpErr # "nil" /\ wpErr' # wpErr) => tasks' = << >> ]_vars

\* List returned the error of the second unknown type of two, whose task
\* failed first, after the tasks of the known type had listed extension
\* resources that are given up
C25_Witness ==
    /\ pc = "failed"
    /\ failure = "no schema entry found"
    /\ Len(UnknownTypes(opt.ExtensionResourceTypes)) = 2
    /\ nrl # << >>
    /\ result = NoResult

\* the first resource of a list with the upper-cased id k, and the first error
\* with the upper-cased endpoint k
FirstResource(l, k) ==
    l[CHOOSE i \in 1..Len(l) : Key(l[i]) = k /\ \A j \in 1..(i - 1) : Key(l[j]) # k]

FirstError(l, k) ==
    l[CHOOSE i \in 1..Len(l) :
         /\ ToUpper(l[i].Endpoint) = k
         /\ \A j \in 1..(i - 1) : ToUpper(l[j].Endpoint) # k]

\* a merge keeps what the sets hold and adds, for a new key, the first entry
\* the collector appended for it
MergeKeepsFirst ==
    /\ \A k \in DOMAIN rset' :
          rset'[k] = IF k \in DOMAIN rset THEN rset[k] ELSE FirstResource(nrl, k)
    /\ \A k \in DOMAIN eset' :
          eset'[k] = IF k \in DOMAIN eset /\ pc = "submit" THEN eset[k]
                     ELSE FirstError(nel, k)

\* C26: the resource set keeps, for an upper-cased id, the resource met first:
\* the first of the seeds with that id when the set is seeded, and at a merge
\* the one already in the set or else the first one collected; the error set
\* keeps the first error collected for an upper-cased endpoint.
C26_FirstSeenWins ==
    [][ /\ (pc \in {"crawl", "ext"} /\ pc' \in {"level", "extsubmit"}) =>
              \A k \in DOMAIN rset' : rset'[k] = FirstResource(rl, k)
        /\ (pc = "submit" /\ pc' = "level") => MergeKeepsFirst
        /\ (pc = "extsubmit" /\ pc' = "return") => MergeKeepsFirst ]_vars

\* C27: the result set of a crawl and of the extension phase is seeded with
\* every input resource (by upper-cased id) and from then on only grows: no
\* step removes a key or replaces the resource stored under one; every seed
\* id is in the output of ListChildResource and every parent passed to
\* ListExtensionResource is in its output (ids compared upper-cased, as the
\* set is keyed).
C27_ResultSetGrows ==
    /\ []((pc = "filter" /\ crawlOut.returned) =>
             \A s \in Range(SeedResources(reqs)) : InOutput(s.Id))
    /\ [][ /\ (pc \in {"crawl", "ext"} /\ pc' \in {"level", "extsubmit"}) =>
                 \A r \in Range(rl) : Key(r) \in DOMAIN rset'
           /\ (pc \in {"level", "submit", "extsubmit"}
               /\ pc' \in {"level", "submit", "extsubmit", "filter", "return"}) =>
                 \A k \in DOMAIN rset : k \in DOMAIN rset' /\ rset'[k] = rset[k]
           /\ (pc = "extsubmit" /\ pc' = "return") =>
                 \A q \in Range(rl) : \E r \in Range(rl') : Key(r) = Key(q) ]_vars

\* a level was merged whose tasks had listed a seed again, with another
\* property document: the set still holds the seed's
C27_Witness ==
    /\ pc = "level"
    /\ Key(AzureResource(V1, << >>)) \in DOMAIN rset
    /\ \E r \in Range(nrl) :
          Key(r) = ToUpper(V1) /\ r # rset[ToUpper(V1)]
    /\ Cardinality(DOMAIN rset) >= 3

\* C28: after the merge of a level the next frontier is exactly what the merge
\* added to the result set: no two of its resources share the upper-cased id,
\* none has an upper-cased id the set held before the merge, each is the
\* resource the set now holds under its id, and every key the merge added has
\* its resource in the frontier.
C28_FrontierIsNew ==
    [][ (pc = "submit" /\ pc' = "level") =>
           /\ NoTwoSameId(rl')
           /\ \A r \in Range(rl') : Key(r) \notin DOMAIN rset /\ rset'[Key(r)] = r
           /\ \A k \in (DOMAIN rset') \ (DOMAIN rset) :
                 \E r \in Range(rl') : Key(r) = k ]_vars

\* two tasks of a level found the same id: it is in the next frontier once
C28_Witness ==
    /\ pc = "level"
    /\ Cardinality({i \in 1..Len(nrl) : nrl[i].Id = S1}) = 2
    /\ Cardinality({i \in 1..Len(rl) : rl[i].Id = S1}) = 1
    /\ Cardinality(DOMAIN rset) = 3

\* the type path of a resource as the crawl looks it up, and the child types
\* the schema tree declares for it
TypeOf(r) == ToUpper(RouteScopeString(r.Id))

ChildTypes(r) ==
    IF TypeOf(r) \in DOMAIN ARMSchemaTree THEN DOMAIN ARMSchemaTree[TypeOf(r)].Children
    ELSE {}

\* C29: while a level's pool is open, for every resource r of the frontier
\* that the submission loop has passed and every child type c the schema tree
\* declares for r's type, exactly one task lists c under r (one per occurrence
\* of r in the frontier), with the last version of c's version list; the pool
\* holds no other task; and a task that has walked has requested the endpoint
\* made of r's own id and c.
C29_OneTaskPerChildType ==
    pc = "submit" =>
        /\ \A k \in 1..(idx - 1) : \A c \in ChildTypes(rl[k]) :
              Cardinality({i \in 1..Len(tasks) :
                              tasks[i].res = rl[k] /\ tasks[i].crt = <<c>>})
                 = Cardinality({j \in 1..(idx - 1) : rl[j] = rl[k]})
        /\ \A i \in 1..Len(tasks) :
              LET t == tasks[i]
              IN  /\ t.kind = "child"
                  /\ \E k \in 1..(idx - 1) : t.res = rl[k]
                  /\ \E c \in ChildTypes(t.res) :
                        /\ t.crt = <<c>>
                        /\ t.version = Last(ARMSchemaTree[TypeOf(t.res) \o <<c>>].Versions)
                  /\ t.st \in {"finished", "collected"} =>
                        (ToUpper(t.res.Id) \o t.crt) \in DOMAIN listCalls

\* the two tasks of a resource whose type has two child types have walked,
\* each its own endpoint with its own version
C29_Witness ==
    /\ pc = "submit"
    /\ Len(tasks) = 2
    /\ tasks[1].res.Id = I1 /\ tasks[2].res.Id = I1
    /\ tasks[1].crt # tasks[2].crt
    /\ tasks[1].version # tasks[2].version
    /\ \A i \in 1..2 : tasks[i].st = "collected"

NoEntry(r) == TypeOf(r) \notin DOMAIN ARMSchemaTree

\* the endpoint e is the id of r or a collection directly under it
ListsUnder(e, r) ==
    /\ Len(e) \in {Len(r.Id), Len(r.Id) + 1}
    /\ SubSeq(e, 1, Len(r.Id)) = ToUpper(r.Id)

\* C30: a resource of the frontier whose upper-cased type path has no entry in
\* the schema tree is skipped: no task is added for it, and when the crawl
\* returns no listing has been requested under it, no error is recorded for
\* it and it is in the output; List with Recursive fails only before the
\* crawl (the seed query) or after it has returned.
C30_NoEntrySkipped ==
    /\ pc = "submit" =>
          \A k \in 1..Len(rl) : NoEntry(rl[k]) =>
              /\ \A i \in 1..Len(tasks) : tasks[i].res # rl[k]
              /\ Key(rl[k]) \in DOMAIN rset
    /\ (pc = "filter" /\ crawlOut.returned) =>
          \A k \in DOMAIN rset : NoEntry(rset[k]) =>
              /\ \A e \in DOMAIN listCalls : ~ListsUnder(e, rset[k])
              /\ \A le \in Range(crawlOut.Errors) : ~ListsUnder(le.Endpoint, rset[k])
              /\ rset[k] \in Range(crawlOut.Resources)
    /\ (pc = "failed" /\ opt.Recursive /\ failure # "seed") => crawlOut.returned

\* a crawl has returned a seed that is a resource group and a child whose type
\* the schema tree does not know, next to listed children
C30_Witness ==
    /\ pc = "filter" /\ crawlOut.returned
    /\ \E r \in Range(crawlOut.Resources) : r.Id = Q2 /\ NoEntry(r)
    /\ \E r \in Range(crawlOut.Resources) : r.Id = G1 /\ NoEntry(r)
    /\ InOutput(S1)

\* the items of the first n pages of a walk's endpoint that reach the checks
\* of the id: those the walk's filter lets through, and those that cannot be
\* decoded, which the filter never sees
Candidates(t, n) ==
    LET Accepted(w) ==
            \/ w.idk = "malformed"
            \/ t.filter = "nil"
            \/ ApplyFilter(t.filter, t.res.Properties, w)
    IN  SelectSeq(PageItems(PagesAt(backend, Endpoint(t)), n), Accepted)

\* a step in which the walk of task i requests a page
PageRequest(i) ==
    /\ tasks[i].st = "running" /\ ~UnknownType(tasks[i])
    /\ i <= Len(tasks') /\ tasks'[i] # tasks[i]

\* C31: within one listing task the pages are requested one after another: a
\* step requests one page of one task, the page after the ones the task has
\* received, every item of which it has processed by then; every page received
\* before was a success; the count of received pages goes up by one exactly
\* when the requested page is a success, and otherwise (404 or any other
\* failure) the walk has ended; a walk that has ended requests nothing more.
C31_SequentialPages ==
    /\ [][\A i \in 1..Len(tasks) :
             PageRequest(i) =>
                LET t == tasks[i]
                    pages == PagesAt(backend, Endpoint(t))
                IN  /\ \A j \in 1..Len(tasks) : j # i => tasks'[j] = tasks[j]
                    /\ t.page < Len(pages)
                    /\ \A q \in 1..t.page : pages[q].kind = "ok"
                    /\ Len(t.Resources) + Len(t.Errors) = Len(Candidates(t, t.page))
                    /\ IF pages[t.page + 1].kind = "ok"
                       THEN tasks'[i].page = t.page + 1
                       ELSE tasks'[i].page = t.page /\ tasks'[i].st = "finished"]_vars
    /\ [][\A i \in 1..Len(tasks) :
             (tasks[i].st \in {"finished", "collected"} /\ i <= Len(tasks')) =>
                /\ tasks'[i].st \in {"finished", "collected"}
                /\ tasks'[i].page = tasks[i].page]_vars

\* a walk has ended on a 404 of its second page, with the item of the first
\* page processed and the third page never requested; at the level before, a
\* walk met another failure on its second page and left its third page alone
C31_Witness ==
    /\ \E i \in Ended :
          LET pages == PagesAt(backend, Endpoint(tasks[i]))
          IN  /\ tasks[i].page = 1 /\ Len(pages) = 3
              /\ pages[2].kind = "404" /\ pages[3].kind = "ok"
              /\ Len(tasks[i].Resources) = 1 /\ tasks[i].Errors = << >>
              /\ listCalls[Endpoint(tasks[i])] = 2
    /\ \E e \in DOMAIN listCalls :
          /\ Len(PagesAt(backend, e)) = 3 /\ PagesAt(backend, e)[2].kind = "500"
          /\ listCalls[e] = 2

\* what a walk holds of the items of the pages it received, were `Bad` the
\* items that record an error and `Good` the ones collected: one error per
\* bad item, each under the walk's endpoint key, next to the error of a page
\* that failed, and the good items in the order listed
HoldsItems(t, Bad(_), Good(_)) ==
    LET pages == PagesAt(backend, Endpoint(t))
        items == PageItems(pages, t.page)
        good == SelectSeq(items, Good)
        pageError == IF t.st \in {"finished", "collected"} /\ EndedOnFailure(t)
                        /\ StoppedOn(t).kind # "404"
                     THEN 1 ELSE 0
    IN  /\ Len(t.Errors) = Len(SelectSeq(items, Bad)) + pageError
        /\ \A k \in 1..Len(t.Errors) : t.Errors[k].Endpoint = Endpoint(t)
        /\ t.Resources = [k \in 1..Len(good) |-> AzureResource(good[k].id, good[k])]

PassesFilter(t, w) == t.filter = "nil" \/ ApplyFilter(t.filter, t.res.Properties, w)

\* C32: in every walk, child or extension, each item of the pages received
\* that does not parse (body that cannot be decoded, id missing, not a string
\* or unparseable) has recorded an error under the walk's endpoint key, and
\* only that item is skipped: every well-formed item (that the filter of the
\* walk, if any, accepts) of the same page and of the following pages is
\* collected.
C32_BadItemRecorded ==
    \A i \in 1..Len(tasks) :
        LET t == tasks[i]
            Bad(w) == ~WellFormedItem(w)
            Good(w) == WellFormedItem(w) /\ PassesFilter(t, w)
        IN  HoldsItems(t, Bad, Good)

\* the resources List hands to ListExtensionResource: the ones the managed
\* filter left and, with IncludeResourceGroup, the groups fetched
PassedToExtension ==
    Range(Survivors) \cup
        (IF opt.IncludeResourceGroup THEN {rgs[g] : g \in DOMAIN rgs} ELSE {})

ExtensionPhase ==
    pc \in {"extsubmit", "return", "done"} /\ Len(opt.ExtensionResourceTypes) # 0

\* C33: the extension phase is one pass: while it submits, the task of
\* position (k, j) is the one of the k-th resource of the list passed in and
\* the j-th configured extension type, so that once the list is through there
\* is exactly one task per pair; the parent of every task is a resource passed
\* in, never one the phase discovered; a phase that ended without error has
\* walked the endpoint of every task; and after the phase no task is added and
\* no page is requested any more.
C33_SinglePass ==
    /\ [](ExtensionPhase =>
            LET n == Len(opt.ExtensionResourceTypes)
            IN  /\ \A i \in 1..Len(tasks) :
                      /\ tasks[i].kind = "ext"
                      /\ tasks[i].res \in PassedToExtension
                      /\ tasks[i].type = opt.ExtensionResourceTypes[((i - 1) % n) + 1].Type
                /\ pc = "extsubmit" =>
                      /\ Range(rl) = PassedToExtension
                      /\ Len(tasks) = (idx - 1) * n
                      /\ \A i \in 1..Len(tasks) : tasks[i].res = rl[((i - 1) \div n) + 1]
                /\ pc \in {"return", "done"} =>
                      /\ Len(tasks) = n * (Len(Survivors) +
                                             IF opt.IncludeResourceGroup
                                             THEN Cardinality(DOMAIN rgs) ELSE 0)
                      /\ \A p \in PassedToExtension :
                            \A j \in 1..n :
                                \E i \in 1..Len(tasks) :
                                    /\ tasks[i].res = p
                                    /\ tasks[i].type = opt.ExtensionResourceTypes[j].Type
                                    /\ Endpoint(tasks[i]) \in DOMAIN listCalls)
    /\ [][(ExtensionPhase /\ pc \in {"return", "done"} /\ pc' # "seed") =>
             tasks' = tasks /\ listCalls' = listCalls]_vars

\* List has returned extension resources found under a resource group, a seed
\* and a child, the parents of the tasks; none of the resources found is the
\* parent of a task
C33_Witness ==
    /\ pc = "done" /\ ExtensionPhase
    /\ opt.Recursive /\ opt.IncludeResourceGroup
    /\ \E i \in 1..Len(tasks) : tasks[i].res.Id = G1
    /\ \E i \in 1..Len(tasks) : tasks[i].res.Id = V1
    /\ \E i \in 1..Len(tasks) : tasks[i].res.Id = S1
    /\ \E r \in Range(result.Resources) : r.Id = R3
    /\ \A i \in 1..Len(tasks) : tasks[i].res.Id \notin {R3, R4}
    /\ Len(tasks) = 4

\* C34: once the context is cancelled the running crawl returns: every page
\* request made from then on fails and ends its walk with what the walk had
\* (one error more), the pool drains, at most one level is begun after the
\* cancellation, ListChildResource returns, and what it returns holds every
\* resource the crawl had collected when the context was cancelled.
C34_CancelledCrawlReturns ==
    /\ ctx.cancelled ~> crawlOut.returned
    /\ [][ctx.cancelled =>
             \A i \in 1..Len(tasks) :
                 PageRequest(i) =>
                     /\ tasks'[i].st = "finished"
                     /\ tasks'[i].page = tasks[i].page
                     /\ tasks'[i].Resources = tasks[i].Resources
                     /\ Len(tasks'[i].Errors) = Len(tasks[i].Errors) + 1]_vars
    /\ [](ctx.levels <= 1)
    /\ []((ctx.cancelled /\ crawlOut.returned) =>
             ctx.had \subseteq {Key(r) : r \in Range(crawlOut.Resources)})

\* a crawl cancelled while the walk under .../subnets/x was between its pages
\* has returned: the child .../subnets/x, collected before, and the item of the
\* page that walk had received are returned, next to the error of the request
\* the cancellation failed; one more level was begun and found nothing
C34_Witness ==
    /\ ctx.cancelled /\ crawlOut.returned
    /\ ctx.levels = 1
    /\ ToUpper(S1) \in ctx.had /\ ToUpper(I1) \notin ctx.had
    /\ InOutput(S1) /\ InOutput(I1)
    /\ \E le \in Range(crawlOut.Errors) :
          le.Endpoint = ToUpper(S1) \o IPS /\ le.Message = "context canceled"

\* C35: the managed filter runs after the expansion: when List has returned
\* with Recursive set and IncludeManaged unset, every managed seed is absent
\* from the result, yet each of its child endpoints has been walked, and every
\* unmanaged item with a parseable id on the pages of those listings fetched
\* with success is in the result (under its id, letter case aside: of two
\* items with one id the crawl keeps the first it merges).
C35_FilterAfterExpansion ==
    (pc = "done" /\ opt.Recursive /\ ~opt.IncludeManaged) =>
        \A r \in Range(SeedResources(reqs)) :
            Managed(r) =>
                /\ r \notin Range(result.Resources)
                /\ \A ts \in DirectChildTasks(r) : \A i \in 1..Len(ts) :
                      LET pages == PagesAt(backend, Endpoint(ts[i]))
                      IN  /\ Endpoint(ts[i]) \in DOMAIN listCalls
                          /\ \A q \in FetchedPages(pages) :
                                \A k \in 1..Len(pages[q].Value) :
                                    LET w == pages[q].Value[k]
                                    IN  (WellFormedItem(w) /\ w.managedBy \in {"absent", ""})
                                            => \E x \in Range(result.Resources) :
                                                   /\ ToUpper(x.Id) = ToUpper(w.id)
                                                   /\ ~Managed(x)

\* List has returned without the managed seed .../vnets/b and with the two
\* unmanaged items listed under it
C35_Witness ==
    /\ pc = "done" /\ opt.Recursive /\ ~opt.IncludeManaged
    /\ \E r \in Range(SeedResources(reqs)) : r.Id = V2 /\ r.Properties.managedBy = "X"
    /\ \A r \in Range(result.Resources) : r.Id # V2
    /\ \E r \in Range(result.Resources) : r.Id = S2 /\ r.Properties.managedBy = ""
    /\ \E r \in Range(result.Resources) : r.Id = Q2

\* C36: the managed filter touches the seed and child resources only: when
\* List has returned, every resource group fetched by the enrichment and every
\* resource collected by a walk of the extension phase is in the result,
\* whatever its managedBy and whether or not IncludeManaged is set (an
\* extension resource under its id, letter case aside).
C36_AddedAfterFilter ==
    pc = "done" =>
        /\ opt.IncludeResourceGroup =>
              \A g \in DOMAIN rgs : rgs[g] \in Range(result.Resources)
        /\ Len(opt.ExtensionResourceTypes) # 0 =>
              \A i \in 1..Len(tasks) : \A r \in Range(tasks[i].Resources) :
                  \E x \in Range(result.Resources) :
                      /\ ToUpper(x.Id) = Key(r)
                      /\ Managed(r) => Managed(x)

\* List has returned without IncludeManaged a resource group and an extension
\* resource that both have a manager
C36_Witness ==
    /\ pc = "done" /\ ~opt.IncludeManaged
    /\ opt.IncludeResourceGroup /\ Len(opt.ExtensionResourceTypes) # 0
    /\ \E x \in Range(result.Resources) : x.Id = G2 /\ x.Properties.managedBy = "X"
    /\ \E x \in Range(result.Resources) : x.Id = R2 /\ x.Properties.managedBy = "X"
    /\ \E r \in Range(preFilter) : Managed(r) /\ r \notin Range(result.Resources)

\* the candidates a filtered walk has received whose id is missing, not a
\* string or unparseable
BadIdCandidates(t) ==
    LET HasBadId(w) == w.idk # "malformed" /\ ~WellFormedItem(w)
    IN  SelectSeq(PageItems(PagesAt(backend, Endpoint(t)), t.page), HasBadId)

IdErrors(t) ==
    LET AboutId(e) == e.Message \in {"no resource id found in response",
                                     "resource id is not a string",
                                     "parsing resource id"}
    IN  SelectSeq(t.Errors, AboutId)

\* C37: in an extension walk with a filter the filter is called before the id
\* is looked at: a candidate the filter rejects leaves neither a resource nor
\* an error, whatever its id; the errors about an id are as many as the
\* candidates with a bad id that the filter accepts; and the resources are the
\* well-formed candidates the filter accepts.
C37_FilterBeforeId ==
    \A i \in 1..Len(tasks) :
        LET t == tasks[i]
            Accepted(w) == ApplyFilter(t.filter, t.res.Properties, w)
            Bad(w) == ~WellFormedItem(w) /\ (w.idk = "malformed" \/ Accepted(w))
            Good(w) == WellFormedItem(w) /\ Accepted(w)
        IN  (t.kind = "ext" /\ t.filter # "nil") =>
                /\ HoldsItems(t, Bad, Good)
                /\ Len(IdErrors(t)) = Len(SelectSeq(BadIdCandidates(t), Accepted))
                /\ \A r \in Range(t.Resources) : Accepted(r.Properties)

\* a filtered extension walk has received two candidates with a bad id that
\* the filter rejects and three that it accepts, and holds three errors about
\* an id; List has returned the error of that endpoint
C37_Witness ==
    /\ pc = "done"
    /\ \E i \in Ended :
          LET t == tasks[i]
              Accepted(w) == ApplyFilter(t.filter, t.res.Properties, w)
              Rejected(w) == ~Accepted(w)
          IN  /\ t.kind = "ext" /\ t.filter = "roleAssignments"
              /\ Len(SelectSeq(BadIdCandidates(t), Rejected)) = 2
              /\ \E w \in Range(BadIdCandidates(t)) : Rejected(w) /\ w.idk = "missing"
              /\ \E w \in Range(BadIdCandidates(t)) : Rejected(w) /\ w.idk = "string"
              /\ Len(IdErrors(t)) = 3
              /\ Len(t.Resources) = 2
              /\ \E le \in Range(result.Errors) : le.Endpoint = Endpoint(t)

\* C38: for every mapping BuildARMSchemaTree accepts, the latest version of
\* every entry of the tree, which a listing task of that type selects, is an
\* element of the entry's version list: the selection never reads outside the
\* list.
C38_LatestVersionExists ==
    build.pc = "done" =>
        \A k \in DOMAIN build.b.tree :
            LatestVersion(EntryAt(k).Versions) # IndexOutOfRange

\* the page requests one walk of an endpoint makes: one per page up to the
\* first page that fails, that one included
WalkLength(e) ==
    LET pages == PagesAt(backend, e)
        n == Cardinality(FetchedPages(pages))
    IN  IF n < Len(pages) THEN n + 1 ELSE n

SeedsDistinct == NoTwoSameId(SeedResources(reqs))

\* C39: when no two seeds have the same upper-cased id, one call of
\* ListChildResource walks every endpoint at most once: the page requests
\* counted for an endpoint never exceed those of one walk; within a level no
\* two tasks have one endpoint and every task's parent is a resource of the
\* frontier, whose ids are distinct; and the frontier a merge leaves is made
\* of the resources that merge added to the set, so that a resource is
\* expanded in the level after the one that added it and in no other.
C39_EndpointWalkedOnce ==
    /\ []((pc \notin {"seed", "seedloop"} /\ SeedsDistinct) =>
            /\ \A e \in DOMAIN listCalls : listCalls[e] <= WalkLength(e)
            /\ \A i, j \in 1..Len(tasks) :
                  Endpoint(tasks[i]) = Endpoint(tasks[j]) => i = j
            /\ pc \in {"level", "submit"} =>
                  /\ NoTwoSameId(rl)
                  /\ \A k \in 1..Len(rl) : Key(rl[k]) \in DOMAIN rset
                  /\ pc = "submit" =>
                        \A i \in 1..Len(tasks) : tasks[i].res \in Range(rl))
    /\ [][(pc = "submit" /\ pc' = "level") =>
             \A k \in 1..Len(rl') :
                 Key(rl'[k]) \notin DOMAIN rset /\ Key(rl'[k]) \in DOMAIN rset']_vars

\* a crawl from two distinct seeds has returned: both seeds listed the same
\* child in one level, and the child listed one of the seeds; each of the
\* three endpoints has been requested once
C39_Witness ==
    /\ crawlOut.returned /\ SeedsDistinct
    /\ \E r \in Range(SeedResources(reqs)) : r.Id = V1
    /\ \E r \in Range(SeedResources(reqs)) : r.Id = V2
    /\ \E w \in Range(PagesAt(backend, ToUpper(V1) \o SUBNETS)[1].Value) : w.id = S1
    /\ \E w \in Range(PagesAt(backend, ToUpper(V2) \o SUBNETS)[1].Value) : w.id = S1
    /\ \E w \in Range(PagesAt(backend, ToUpper(S1) \o IPS)[1].Value) : w.id = V1
    /\ listCalls[ToUpper(V1) \o SUBNETS] = 1
    /\ listCalls[ToUpper(V2) \o SUBNETS] = 1
    /\ listCalls[ToUpper(S1) \o IPS] = 1

====
